---- MODULE Spec2Model ----
(***************************************************************************)
(* A model of the BibTeX completion pipeline of Awesome-Citations:         *)
(* scripts/complete_bibtex.py (cache, failed-DOI log, DOI corrections,     *)
(* safe_request, the source adapters, fetch_complete_bibtex, the           *)
(* Validator, the merge and the driver complete_bibtex_file run            *)
(* non-interactively) and step 2 of workflow_complete_bibtex.              *)
(*                                                                         *)
(* Python strings are TLA+ strings; Python's None is the string None.      *)
(* A BibTeX entry (a dict) is a function from field names to strings; a    *)
(* key that is not in the dict is not in the DOMAIN.  The clock counts     *)
(* whole days.                                                             *)
(***************************************************************************)
EXTENDS Integers, Sequences, FiniteSets, TLC

(***************************************************************************)
(* Bounds of the model.                                                    *)
(***************************************************************************)
\* number of entries of the input file
MaxEntries == 2
\* days the clock advances in one step
ClockStep == 15
\* the clock stops advancing here
MaxClock == 45
\* the calls of cache_bibtex a client makes
MaxWrites == 2

(***************************************************************************)
(* Python values and string helpers.                                       *)
(***************************************************************************)
None == "<None>"

Truthy(v) == v # None /\ v # ""

Min(a, b) == IF a <= b THEN a ELSE b

\* s[i-1:j] of Python: the characters i..j, cut to the string
Sub(s, i, j) ==
    LET lo == IF i < 1 THEN 1 ELSE i
        hi == Min(j, Len(s))
    IN  IF lo > hi THEN "" ELSE SubSeq(s, lo, hi)

Char(s, i) == Sub(s, i, i)

StartsWith(s, p) == Len(s) >= Len(p) /\ Sub(s, 1, Len(p)) = p

DropN(s, n) == Sub(s, n + 1, Len(s))

\* the first index at or after i where p occurs in s, 0 when there is none
RECURSIVE FindFrom(_, _, _)
FindFrom(s, p, i) ==
    IF i + Len(p) - 1 > Len(s) THEN 0
    ELSE IF Sub(s, i, i + Len(p) - 1) = p THEN i
    ELSE FindFrom(s, p, i + 1)

Contains(s, p) == FindFrom(s, p, 1) # 0

\* str.replace(old, new): every non-overlapping occurrence, left to right
RECURSIVE Replace(_, _, _)
Replace(s, old, new) ==
    LET k == FindFrom(s, old, 1)
    IN  IF k = 0 THEN s
        ELSE Sub(s, 1, k - 1) \o new \o Replace(DropN(s, k + Len(old) - 1), old, new)

Digits == {"0", "1", "2", "3", "4", "5", "6", "7", "8", "9"}

Whitespace == {" ", "\t", "\n", "\r"}

UpperCase == <<"A", "B", "C", "D", "E", "F", "G", "H", "I", "J", "K", "L", "M",
               "N", "O", "P", "Q", "R", "S", "T", "U", "V", "W", "X", "Y", "Z">>

LowerCase == <<"a", "b", "c", "d", "e", "f", "g", "h", "i", "j", "k", "l", "m",
               "n", "o", "p", "q", "r", "s", "t", "u", "v", "w", "x", "y", "z">>

Letters == {UpperCase[i] : i \in 1..26} \cup {LowerCase[i] : i \in 1..26}

\* string.punctuation (without the grave accent, which no title of the model uses)
Punctuation == {"!", "\"", "#", "$", "%", "&", "'", "(", ")", "*", "+", ",", "-",
                ".", "/", ":", ";", "<", "=", ">", "?", "@", "[", "\\", "]", "^",
                "_", "{", "|", "}", "~"}

LowerChar(c) ==
    IF \E i \in 1..26 : UpperCase[i] = c
    THEN LowerCase[CHOOSE i \in 1..26 : UpperCase[i] = c]
    ELSE c

RECURSIVE Lower(_)
Lower(s) == IF s = "" THEN "" ELSE LowerChar(Char(s, 1)) \o Lower(DropN(s, 1))

RECURSIVE LStrip(_)
LStrip(s) ==
    IF s # "" /\ Char(s, 1) \in Whitespace THEN LStrip(DropN(s, 1)) ELSE s

RECURSIVE RStrip(_)
RStrip(s) ==
    IF s # "" /\ Char(s, Len(s)) \in Whitespace
    THEN RStrip(Sub(s, 1, Len(s) - 1))
    ELSE s

Strip(s) == RStrip(LStrip(s))

\* the length of the longest run of characters of set cs that starts at i
RECURSIVE RunLen(_, _, _)
RunLen(s, i, cs) ==
    IF i <= Len(s) /\ Char(s, i) \in cs THEN 1 + RunLen(s, i + 1, cs) ELSE 0

\* the length of the longest run of characters outside cs that starts at i
RECURSIVE RunLenNot(_, _, _)
RunLenNot(s, i, cs) ==
    IF i <= Len(s) /\ Char(s, i) \notin cs THEN 1 + RunLenNot(s, i + 1, cs) ELSE 0

\* the element of a set of one element: a value computed once and then named
TheOne(S) == CHOOSE x \in S : TRUE

\* dict.get(key, default)
Get(entry, key, default) == IF key \in DOMAIN entry THEN entry[key] ELSE default

\* dict with entry[key] = value
Put(entry, key, value) ==
    [k \in DOMAIN entry \cup {key} |-> IF k = key THEN value ELSE entry[k]]

(***************************************************************************)
(* Program constants.                                                      *)
(***************************************************************************)
\* DOI prefix to publisher mapping, in the dict's insertion order
DOI_PUBLISHERS == << <<"10.1109", "IEEE">>, <<"10.1145", "ACM">>,
                     <<"10.1007", "Springer">>, <<"10.1016", "Elsevier">>,
                     <<"10.48550", "arXiv">> >>

IMPORTANT_FIELDS == <<"author", "title", "year", "journal", "booktitle",
                      "volume", "number", "pages", "publisher", "doi">>

CACHE_DIR == ".cache"

CACHE_EXPIRY_DAYS == 30

\* RATE_LIMIT_DELAY and RATE_LIMIT_CACHE_DELAY, in tenths of a second
RATE_LIMIT_DELAY == 5

RATE_LIMIT_CACHE_DELAY == 2

(***************************************************************************)
(* The HTTP layer.  One attempt of the transport is answered by the        *)
(* environment with a record: exc is the exception the session raises      *)
(* ("" for none), and otherwise status_code, url (after redirects) and     *)
(* text describe the response.                                             *)
(***************************************************************************)
Answer(exc, status_code, url, text) ==
    [exc |-> exc, status_code |-> status_code, url |-> url, text |-> text]

\* safe_request's return value None
NoResponse == Answer("None", 0, "", "")

IsNone(response) == response.exc = "None"

\* bool(response) of requests.Response is response.ok
NotResponse(response) == IsNone(response) \/ response.status_code >= 400

\* answers: what the transport answers to the successive attempts of this call.
\* response.raise_for_status() raises HTTPError, a RequestException, for 4xx and
\* 5xx, and the Retry strategy ends in a RetryError for the retried statuses.
RECURSIVE safe_request(_, _, _)
safe_request(answers, retry_without_proxy, verify) ==
    LET a == Head(answers)
    IN  IF a.exc = "" THEN
            IF a.status_code >= 400 THEN NoResponse ELSE a
        ELSE IF a.exc = "ProxyError" THEN
            IF retry_without_proxy
            THEN safe_request(Tail(answers), FALSE, verify)
            ELSE NoResponse
        ELSE IF a.exc = "SSLError" THEN
            IF verify
            THEN safe_request(Tail(answers), FALSE, FALSE)
            ELSE NoResponse
        ELSE NoResponse

\* the number of attempts safe_request makes on these answers
RECURSIVE safe_request_attempts(_, _, _)
safe_request_attempts(answers, retry_without_proxy, verify) ==
    LET a == Head(answers)
    IN  IF a.exc = "ProxyError" /\ retry_without_proxy
        THEN 1 + safe_request_attempts(Tail(answers), FALSE, verify)
        ELSE IF a.exc = "SSLError" /\ verify
        THEN 1 + safe_request_attempts(Tail(answers), FALSE, FALSE)
        ELSE 1

\* the session create_session(use_proxy, verify_ssl) returns: whether it takes
\* the proxies of the environment and whether it verifies certificates
create_session(use_proxy, verify_ssl) ==
    [use_proxy |-> use_proxy, verify_ssl |-> verify_ssl]

\* the sessions safe_request sends its successive attempts over, the verify
\* argument of the request counted in
RECURSIVE safe_request_sessions(_, _, _, _)
safe_request_sessions(answers, session, retry_without_proxy, verify) ==
    LET a == Head(answers)
    IN  <<[session EXCEPT !.verify_ssl = @ /\ verify]>>
        \o (IF a.exc = "ProxyError" /\ retry_without_proxy
            THEN safe_request_sessions(
                     Tail(answers), create_session(FALSE, TRUE), FALSE, verify)
            ELSE IF a.exc = "SSLError" /\ verify
            THEN safe_request_sessions(
                     Tail(answers), create_session(TRUE, FALSE), FALSE, FALSE)
            ELSE <<>>)

\* returns <<exists, error_message>>
verify_doi_exists(doi, answers) ==
    IF ~Truthy(doi) THEN <<FALSE, "Empty DOI">>
    ELSE IF ~StartsWith(doi, "10.")
    THEN <<FALSE, "Invalid DOI format (must start with '10.'): " \o doi>>
    ELSE IF ~Contains(doi, "/")
    THEN <<FALSE, "Invalid DOI structure (missing '/'): " \o doi>>
    ELSE LET response == safe_request(answers, TRUE, TRUE)
         IN  IF IsNone(response)
             THEN <<FALSE, "DOI resolution failed (network error)">>
             ELSE IF response.status_code = 200 \/ response.status_code = 302
             THEN <<TRUE, "">>
             ELSE IF response.status_code = 404
             THEN <<FALSE, "DOI not found in DOI.org database (HTTP 404)">>
             ELSE IF response.status_code = 403
             THEN <<FALSE, "Access forbidden to DOI resource (HTTP 403)">>
             ELSE <<FALSE, "DOI resolution returned HTTP "
                            \o ToString(response.status_code)>>

RECURSIVE identify_publisher_from(_, _)
identify_publisher_from(doi, i) ==
    IF i > Len(DOI_PUBLISHERS) THEN None
    ELSE IF StartsWith(doi, DOI_PUBLISHERS[i][1]) THEN DOI_PUBLISHERS[i][2]
    ELSE identify_publisher_from(doi, i + 1)

identify_publisher(doi) == identify_publisher_from(doi, 1)

(***************************************************************************)
(* extract_doi.                                                            *)
(***************************************************************************)
\* re.sub(r'^(https?://)?(dx\.)?doi\.org/', '', doi)
StripDoiPrefix(doi) ==
    LET r1 == IF StartsWith(doi, "https://") THEN DropN(doi, 8)
              ELSE IF StartsWith(doi, "http://") THEN DropN(doi, 7)
              ELSE doi
        r2 == IF StartsWith(r1, "dx.") THEN DropN(r1, 3) ELSE r1
    IN  IF StartsWith(r2, "doi.org/") THEN DropN(r2, 8) ELSE doi

\* the group of r'doi\.org/(10\.\d+/[^\s]+)' matched at position i, "" if none
DoiUrlMatchAt(url, i) ==
    LET p == "doi.org/10."
        d == i + Len(p)
        nd == RunLen(url, d, Digits)
        r == d + nd + 1
        nr == RunLenNot(url, r, Whitespace)
    IN  IF Sub(url, i, i + Len(p) - 1) = p /\ nd >= 1
           /\ Char(url, d + nd) = "/" /\ nr >= 1
        THEN Sub(url, i + 8, r + nr - 1)
        ELSE ""

\* the group of r'arxiv\.org/(?:abs|pdf)/([a-zA-Z-]+/\d+|\d+\.\d+)' at i, "" if none
ArxivUrlMatchAt(url, i) ==
    LET p == "arxiv.org/"
        k == Sub(url, i + Len(p), i + Len(p) + 3)
        g == i + Len(p) + 4
        na == RunLen(url, g, Letters \cup {"-"})
        nad == RunLen(url, g + na + 1, Digits)
        n1 == RunLen(url, g, Digits)
        n2 == RunLen(url, g + n1 + 1, Digits)
    IN  IF Sub(url, i, i + Len(p) - 1) = p /\ k \in {"abs/", "pdf/"}
        THEN IF na >= 1 /\ Char(url, g + na) = "/" /\ nad >= 1
             THEN Sub(url, g, g + na + nad)
             ELSE IF n1 >= 1 /\ Char(url, g + n1) = "." /\ n2 >= 1
             THEN Sub(url, g, g + n1 + n2)
             ELSE ""
        ELSE ""

\* re.search: the leftmost position where the match function finds a group
RECURSIVE SearchFrom(_, _, _)
SearchFrom(M(_, _), url, i) ==
    IF i > Len(url) THEN ""
    ELSE IF M(url, i) # "" THEN M(url, i)
    ELSE SearchFrom(M, url, i + 1)

extract_doi(entry) ==
    IF Truthy(Get(entry, "doi", ""))
    THEN StripDoiPrefix(Strip(entry["doi"]))
    ELSE IF Truthy(Get(entry, "url", ""))
    THEN LET url == entry["url"]
             m == SearchFrom(DoiUrlMatchAt, url, 1)
             am == SearchFrom(ArxivUrlMatchAt, url, 1)
         IN  IF m # "" THEN m
             ELSE IF am # "" THEN "10.48550/arXiv." \o am
             ELSE None
    ELSE None

(***************************************************************************)
(* The source adapters.  Each returns <<bibtex, error_message>>.  env is   *)
(* what the outside world does during the call: for the adapters that run  *)
(* over safe_request, env[k] is the sequence of transport answers to the   *)
(* attempts of the adapter's k-th request; the text of the last response   *)
(* stands for what the adapter extracts from it (the citation block, the   *)
(* synthesized arXiv record), "" when there is nothing to extract.         *)
(***************************************************************************)
\* re.search(r'10\.1109/([^/]+)/(\d+)', doi) or re.search(r'10\.1109/[^.]+\.(\d+)', doi)
IeeeArticleMatch(doi) ==
    \E i \in 1..Len(doi) :
        /\ Sub(doi, i, i + 7) = "10.1109/"
        /\ \/ LET n == RunLenNot(doi, i + 8, {"/"})
              IN  n >= 1 /\ Char(doi, i + 8 + n) = "/" /\ Char(doi, i + 9 + n) \in Digits
           \/ LET n == RunLenNot(doi, i + 8, {"."})
              IN  n >= 1 /\ Char(doi, i + 8 + n) = "." /\ Char(doi, i + 9 + n) \in Digits

\* re.search(r'/document/(\d+)', response.url)
IeeeUrlMatch(url) ==
    \E i \in 1..Len(url) :
        Sub(url, i, i + 9) = "/document/" /\ Char(url, i + 10) \in Digits

\* re.search(r'/doi/(?:abs/|full/)?10\.1145/(\d+)', response.url)
AcmUrlMatch(url) ==
    \E i \in 1..Len(url) :
        /\ Sub(url, i, i + 4) = "/doi/"
        /\ \E k \in {0, 4, 5} :
              /\ Sub(url, i + 5, i + 4 + k) \in {"", "abs/", "full/"}
              /\ Sub(url, i + 5 + k, i + 12 + k) = "10.1145/"
              /\ Char(url, i + 13 + k) \in Digits

\* re.search(r'10\.48550/arXiv\.(.+)', doi)
ArxivDoiMatch(doi) ==
    \E i \in 1..Len(doi) :
        Sub(doi, i, i + 14) = "10.48550/arXiv." /\ Char(doi, i + 15) \notin {"", "\n"}

fetch_bibtex_from_ieee(doi, env) ==
    IF ~IeeeArticleMatch(doi)
    THEN <<None, "Cannot extract article number from DOI format">>
    ELSE LET response == safe_request(env[1], TRUE, TRUE)
         IN  IF NotResponse(response)
             THEN <<None, "DOI resolution failed (network error or timeout)">>
             ELSE IF response.status_code = 404
             THEN <<None, "DOI not found (HTTP 404) at https://doi.org/" \o doi>>
             ELSE IF response.status_code # 200
             THEN <<None, "DOI resolution failed with HTTP "
                          \o ToString(response.status_code)>>
             ELSE IF ~IeeeUrlMatch(response.url)
             THEN <<None, "Cannot extract article number from redirected URL: "
                          \o response.url>>
             ELSE LET second == safe_request(env[2], TRUE, TRUE)
                  IN  IF NotResponse(second)
                      THEN <<None, "IEEE citation download API failed (network error)">>
                      ELSE IF second.status_code = 404
                      THEN <<None, "IEEE citation API returned 404 (article not found)">>
                      ELSE IF second.status_code = 403
                      THEN <<None, "IEEE citation API returned 403 (access forbidden - may require authentication)">>
                      ELSE IF second.status_code # 200
                      THEN <<None, "IEEE citation API failed with HTTP "
                                   \o ToString(second.status_code)>>
                      ELSE IF second.text # ""
                      THEN <<second.text, None>>
                      ELSE <<None, "IEEE returned empty response">>

\* env is <<text, error>>: what the browser session ends with
fetch_bibtex_from_ieee_selenium(doi, env) ==
    IF Truthy(env[1]) THEN <<env[1], None>> ELSE <<None, env[2]>>

fetch_bibtex_from_acm(doi, env) ==
    LET response == safe_request(env[1], TRUE, TRUE)
    IN  IF NotResponse(response)
        THEN <<None, "DOI resolution failed (network error or timeout)">>
        ELSE IF response.status_code = 404
        THEN <<None, "DOI not found (HTTP 404) at https://doi.org/" \o doi>>
        ELSE IF response.status_code # 200
        THEN <<None, "DOI resolution failed with HTTP "
                     \o ToString(response.status_code)>>
        ELSE IF ~AcmUrlMatch(response.url)
        THEN <<None, "Cannot extract ACM article ID from URL: " \o response.url>>
        ELSE LET second == safe_request(env[2], TRUE, TRUE)
             IN  IF NotResponse(second)
                 THEN <<None, "ACM BibTeX API failed (network error)">>
                 ELSE IF second.status_code = 404
                 THEN <<None, "ACM BibTeX page not found (HTTP 404)">>
                 ELSE IF second.status_code = 403
                 THEN <<None, "ACM returned 403 (access forbidden - may require authentication)">>
                 ELSE IF second.status_code # 200
                 THEN <<None, "ACM BibTeX API failed with HTTP "
                              \o ToString(second.status_code)>>
                 ELSE IF second.text # ""
                 THEN <<second.text, None>>
                 ELSE <<None, "BibTeX content not found in ACM page HTML">>

fetch_bibtex_from_arxiv(doi, env) ==
    IF ~ArxivDoiMatch(doi)
    THEN <<None, "Cannot extract arXiv ID from DOI">>
    ELSE LET response == safe_request(env[1], TRUE, TRUE)
         IN  IF NotResponse(response)
             THEN <<None, "arXiv API request failed (network error or timeout)">>
             ELSE IF response.status_code = 404
             THEN <<None, "arXiv article not found (HTTP 404)">>
             ELSE IF response.status_code # 200
             THEN <<None, "arXiv API failed with HTTP "
                          \o ToString(response.status_code)>>
             ELSE IF response.text # ""
             THEN <<response.text, None>>
             ELSE <<None, "No entry found in arXiv API response">>

fetch_bibtex_from_crossref(doi, env) ==
    LET response == safe_request(env[1], TRUE, TRUE)
    IN  IF NotResponse(response)
        THEN <<None, "CrossRef API request failed (network error or timeout)">>
        ELSE IF response.status_code = 404
        THEN <<None, "DOI not found in CrossRef database (HTTP 404)">>
        ELSE IF response.status_code = 403
        THEN <<None, "CrossRef returned 403 (access forbidden)">>
        ELSE IF response.status_code # 200
        THEN <<None, "CrossRef API failed with HTTP "
                     \o ToString(response.status_code)>>
        ELSE IF response.text # ""
        THEN <<response.text, None>>
        ELSE <<None, "CrossRef returned empty response">>

\* env is <<text, error>>: what the scholarly search and its title gate end with
fetch_bibtex_from_scholar(title, author, env) ==
    IF Truthy(env[1]) THEN <<env[1], None>> ELSE <<None, env[2]>>

(***************************************************************************)
(* The persisted state: cache files, failed-DOI log, corrections table.    *)
(***************************************************************************)
\* doi.replace('/', '_').replace('\\', '_')
get_cache_path(doi) ==
    CACHE_DIR \o "/" \o Replace(Replace(doi, "/", "_"), "\\", "_") \o ".json"

\* get_cached_bibtex with the expiry test days_elapsed >= CACHE_EXPIRY_DAYS
get_cached_bibtex_expires_early(files, now, doi) ==
    LET cache_path == get_cache_path(doi)
    IN  IF cache_path \notin DOMAIN files THEN None
        ELSE IF now - files[cache_path].timestamp >= CACHE_EXPIRY_DAYS THEN None
        ELSE files[cache_path].bibtex

\* files: cache path -> {doi, bibtex, timestamp}; now: time.time() in days
get_cached_bibtex(files, now, doi) ==
    LET cache_path == get_cache_path(doi)
    IN  IF cache_path \notin DOMAIN files THEN None
        ELSE IF now - files[cache_path].timestamp > CACHE_EXPIRY_DAYS THEN None
        ELSE files[cache_path].bibtex

\* cache_bibtex that writes no file
cache_bibtex_not_written(files, now, doi, bibtex) == files

\* the cache files after cache_bibtex(doi, bibtex)
cache_bibtex(files, now, doi, bibtex) ==
    Put(files, get_cache_path(doi),
        [doi |-> doi, bibtex |-> bibtex, timestamp |-> now])

\* log_failed_doi that writes a log of the new entry alone
log_failed_doi_replaces_log(log, now, doi, entry_id, publisher, error_message) ==
    <<[doi |-> doi,
       entry_id |-> entry_id,
       publisher |-> IF Truthy(publisher) THEN publisher ELSE "Unknown",
       error_message |-> error_message,
       http_status |-> None,
       timestamp |-> now]>>

\* log_failed_doi that appends the entry twice
log_failed_doi_twice(log, now, doi, entry_id, publisher, error_message) ==
    LET log_entry == [doi |-> doi,
                      entry_id |-> entry_id,
                      publisher |-> IF Truthy(publisher) THEN publisher ELSE "Unknown",
                      error_message |-> error_message,
                      http_status |-> None,
                      timestamp |-> now]
    IN  log \o <<log_entry, log_entry>>

\* the failed-DOI log after log_failed_doi(doi, entry_id, publisher, error_message)
log_failed_doi(log, now, doi, entry_id, publisher, error_message) ==
    Append(log, [doi |-> doi,
                 entry_id |-> entry_id,
                 publisher |-> IF Truthy(publisher) THEN publisher ELSE "Unknown",
                 error_message |-> error_message,
                 http_status |-> None,
                 timestamp |-> now])

\* data/doi_corrections.json as load_doi_corrections returns it
DoiCorrections ==
    [d \in {"10.1109/WRONG.DOI", "10.1109/INVALID.DOI", "10.1109/PENDING.DOI",
            "10.1109/NOREPLACEMENT.1"} |->
        CASE d = "10.1109/WRONG.DOI" ->
                 [status |-> "corrected", corrected_doi |-> "10.1109/5.771073",
                  reason |-> "Typo"]
          [] d = "10.1109/INVALID.DOI" ->
                 [status |-> "invalid", corrected_doi |-> None,
                  reason |-> "Does not exist"]
          [] d = "10.1109/PENDING.DOI" ->
                 [status |-> "pending", corrected_doi |-> None,
                  reason |-> "Needs research"]
          [] OTHER ->
                 [status |-> "corrected", corrected_doi |-> None,
                  reason |-> "Replacement unknown"]]

\* apply_doi_correction without the branch for status pending
apply_doi_correction_without_pending(doi) ==
    IF doi \in DOMAIN DoiCorrections
    THEN LET correction == DoiCorrections[doi]
         IN  IF correction.status = "invalid"
             THEN <<None, TRUE, "DOI marked as invalid in corrections database: "
                                \o correction.reason>>
             ELSE IF correction.status = "corrected" /\ Truthy(correction.corrected_doi)
             THEN <<correction.corrected_doi, TRUE,
                    "DOI corrected: " \o doi \o " -> " \o correction.corrected_doi
                    \o " (" \o correction.reason \o ")">>
             ELSE <<doi, FALSE, "">>
    ELSE <<doi, FALSE, "">>

\* apply_doi_correction that returns the DOI it was given for status corrected
apply_doi_correction_returns_original(doi) ==
    IF doi \in DOMAIN DoiCorrections
    THEN LET correction == DoiCorrections[doi]
         IN  IF correction.status = "invalid"
             THEN <<None, TRUE, "DOI marked as invalid in corrections database: "
                                \o correction.reason>>
             ELSE IF correction.status = "corrected" /\ Truthy(correction.corrected_doi)
             THEN <<doi, TRUE,
                    "DOI corrected: " \o doi \o " -> " \o correction.corrected_doi
                    \o " (" \o correction.reason \o ")">>
             ELSE IF correction.status = "pending"
             THEN <<None, TRUE, "DOI correction pending research: "
                                \o correction.reason>>
             ELSE <<doi, FALSE, "">>
    ELSE <<doi, FALSE, "">>

\* returns <<corrected_doi, is_corrected, message>>
apply_doi_correction(doi) ==
    IF doi \in DOMAIN DoiCorrections
    THEN LET correction == DoiCorrections[doi]
         IN  IF correction.status = "invalid"
             THEN <<None, TRUE, "DOI marked as invalid in corrections database: "
                                \o correction.reason>>
             ELSE IF correction.status = "corrected" /\ Truthy(correction.corrected_doi)
             THEN <<correction.corrected_doi, TRUE,
                    "DOI corrected: " \o doi \o " -> " \o correction.corrected_doi
                    \o " (" \o correction.reason \o ")">>
             ELSE IF correction.status = "pending"
             THEN <<None, TRUE, "DOI correction pending research: "
                                \o correction.reason>>
             ELSE <<doi, FALSE, "">>
    ELSE <<doi, FALSE, "">>

(***************************************************************************)
(* The Validator, the completeness check and the merge.                    *)
(***************************************************************************)
\* a title whose punctuation is kept
RemovePunctuationKeepsAll(s) == s

\* s.translate(str.maketrans('', '', string.punctuation))
RECURSIVE RemovePunctuation(_)
RemovePunctuation(s) ==
    IF s = "" THEN ""
    ELSE (IF Char(s, 1) \in Punctuation THEN "" ELSE Char(s, 1))
         \o RemovePunctuation(DropN(s, 1))

\* set(s.split()): the whitespace-delimited words of s from position i on
RECURSIVE WordsFrom(_, _)
WordsFrom(s, i) ==
    IF i > Len(s) THEN {}
    ELSE IF Char(s, i) \in Whitespace THEN WordsFrom(s, i + 1)
    ELSE LET n == RunLenNot(s, i, Whitespace)
         IN  {Sub(s, i, i + n - 1)} \cup WordsFrom(s, i + n)

WordSet(s) == WordsFrom(s, 1)

DigitValue(c) == CHOOSE v \in 0..9 : ToString(v) = c

RECURSIVE DigitsValue(_)
DigitsValue(s) ==
    IF s = "" THEN 0
    ELSE 10 * DigitsValue(Sub(s, 1, Len(s) - 1)) + DigitValue(Char(s, Len(s)))

\* int(s): <<parsed, value>>; parsed is FALSE where int raises ValueError
ParseInt(s) ==
    LET t == Strip(s)
        signed == t # "" /\ Char(t, 1) \in {"+", "-"}
        body == IF signed THEN DropN(t, 1) ELSE t
        digits == Replace(body, "_", "")
    IN  IF /\ body # "" /\ RunLen(body, 1, Digits \cup {"_"}) = Len(body)
           /\ Char(body, 1) # "_" /\ Char(body, Len(body)) # "_"
           /\ ~Contains(body, "__")
        THEN <<TRUE, IF signed /\ Char(t, 1) = "-"
                     THEN 0 - DigitsValue(digits) ELSE DigitsValue(digits)>>
        ELSE <<FALSE, 0>>

\* a difference taken without abs()
AbsOfPositiveOnly(n) == n

Abs(n) == IF n < 0 THEN 0 - n ELSE n

\* a normalization that knows doi.org but not dx.doi.org
NormalizeDoiWithoutDx(doi) ==
    Replace(Replace(Replace(doi, "https://", ""), "http://", ""), "doi.org/", "")

NormalizeDoi(doi) ==
    Replace(Replace(Replace(Replace(doi, "https://", ""), "http://", ""),
                    "dx.doi.org/", ""), "doi.org/", "")

\* f"{num / den:.1%}": the ratio in percent with one decimal, rounded to the
\* nearest tenth (a tie between two tenths needs den >= 16)
FormatPercent1(num, den) ==
    LET tenths == (2000 * num + den) \div (2 * den)
    IN  ToString(tenths \div 10) \o "." \o ToString(tenths % 10) \o "%"

\* returns <<is_valid, error_message>>
validate_fetched_bibtex(original_entry, fetched_entry) ==
    LET orig_title == Strip(Lower(Get(original_entry, "title", "")))
        fetched_title == Strip(Lower(Get(fetched_entry, "title", "")))
        orig_words == WordSet(RemovePunctuation(orig_title))
        fetched_words == WordSet(RemovePunctuation(fetched_title))
        overlap == Cardinality(orig_words \cap fetched_words)
        min_len == Min(Cardinality(orig_words), Cardinality(fetched_words))
        orig_year == Get(original_entry, "year", "")
        fetched_year == Get(fetched_entry, "year", "")
        oy == ParseInt(orig_year)
        fy == ParseInt(fetched_year)
        orig_doi == NormalizeDoi(Strip(Lower(Get(original_entry, "doi", ""))))
        fetched_doi == NormalizeDoi(Strip(Lower(Get(fetched_entry, "doi", ""))))
    IN  IF fetched_title = "" THEN <<FALSE, "Fetched entry missing title">>
        ELSE IF orig_title # "" /\ min_len = 0
        THEN <<FALSE, "Title validation failed (empty title)">>
        ELSE IF orig_title # "" /\ 10 * overlap < 6 * min_len
        THEN <<FALSE, "Title mismatch (similarity: "
                      \o FormatPercent1(overlap, min_len) \o ")">>
        ELSE IF /\ orig_year # "" /\ fetched_year # ""
                /\ oy[1] /\ fy[1] /\ Abs(oy[2] - fy[2]) > 1
        THEN <<FALSE, "Year mismatch (original: " \o orig_year \o ", fetched: "
                      \o fetched_year \o ")">>
        ELSE IF /\ Strip(Lower(Get(original_entry, "doi", ""))) # ""
                /\ Strip(Lower(Get(fetched_entry, "doi", ""))) # ""
                /\ orig_doi # fetched_doi
        THEN <<FALSE, "DOI mismatch (original: " \o orig_doi \o ", fetched: "
                      \o fetched_doi \o ")">>
        ELSE <<TRUE, "">>

NonBlank(entry, field) ==
    field \in DOMAIN entry /\ entry[field] # "" /\ Strip(entry[field]) # ""

\* the fields check_completeness looks at for this entry, in order
CheckedFields(entry) ==
    LET entry_type == Get(entry, "ENTRYTYPE", "article")
        Checked(field) == ~(entry_type = "inproceedings" /\ field = "journal")
                          /\ ~(entry_type = "article" /\ field = "booktitle")
    IN  SelectSeq(IMPORTANT_FIELDS, Checked)

\* a completeness check that asks every entry for all the important fields
check_completeness_of_every_field(entry) ==
    LET Present(field) == NonBlank(entry, field)
        Missing(field) == ~NonBlank(entry, field)
    IN  <<SelectSeq(IMPORTANT_FIELDS, Present), SelectSeq(IMPORTANT_FIELDS, Missing)>>

\* returns <<present, missing>>
check_completeness(entry) ==
    LET Present(field) == NonBlank(entry, field)
        Missing(field) == ~NonBlank(entry, field)
    IN  <<SelectSeq(CheckedFields(entry), Present),
          SelectSeq(CheckedFields(entry), Missing)>>

\* a merge that takes the longer value whatever preserve_original says
merge_bibtex_entries_takes_longer(original, fetched, preserve_original) ==
    [key \in DOMAIN original \cup (DOMAIN fetched \ {"ID"}) |->
        IF key \notin DOMAIN fetched \/ key = "ID" THEN original[key]
        ELSE IF ~NonBlank(original, key) THEN fetched[key]
        ELSE IF Len(fetched[key]) > Len(original[key]) THEN fetched[key]
        ELSE original[key]]

merge_bibtex_entries(original, fetched, preserve_original) ==
    [key \in DOMAIN original \cup (DOMAIN fetched \ {"ID"}) |->
        IF key \notin DOMAIN fetched \/ key = "ID" THEN original[key]
        ELSE IF ~NonBlank(original, key) THEN fetched[key]
        ELSE IF ~preserve_original /\ Len(fetched[key]) > Len(original[key])
        THEN fetched[key]
        ELSE original[key]]

(***************************************************************************)
(* utils/multi_source_merger.py.  An entry is a function from field names  *)
(* to strings; the field _merged_from holds a list.                        *)
(***************************************************************************)
\* the dict of field weights, in insertion order
FIELD_WEIGHTS ==
    << <<"author", 10>>, <<"title", 10>>, <<"year", 9>>, <<"journal", 8>>,
       <<"booktitle", 8>>, <<"volume", 7>>, <<"number", 7>>, <<"pages", 7>>,
       <<"doi", 9>>, <<"publisher", 6>>, <<"organization", 6>>, <<"address", 5>>,
       <<"month", 5>>, <<"issn", 6>>, <<"isbn", 6>>, <<"url", 5>>,
       <<"abstract", 8>>, <<"keywords", 7>>, <<"note", 4>>, <<"series", 5>>,
       <<"edition", 6>> >>

\* sum(f(k) for k in 1..n)
RECURSIVE SumTo(_, _)
SumTo(n, f) == IF n = 0 THEN 0 ELSE f[n] + SumTo(n - 1, f)

\* a score whose length bonus has no upper limit
calculate_completeness_score_unbounded_bonus(entry) ==
    SumTo(Len(FIELD_WEIGHTS),
          [k \in 1..Len(FIELD_WEIGHTS) |->
              LET field == FIELD_WEIGHTS[k][1]
                  weight == FIELD_WEIGHTS[k][2]
              IN  IF field \in DOMAIN entry /\ Strip(entry[field]) # ""
                  THEN weight * (700 + 3 * Len(Strip(entry[field])))
                  ELSE 0])

\* the score in units of max_score / 100000: weight * (0.7 + 0.3 * length_bonus)
\* is weight * (700 + 3 * min(len, 100)) thousandths
calculate_completeness_score(entry) ==
    SumTo(Len(FIELD_WEIGHTS),
          [k \in 1..Len(FIELD_WEIGHTS) |->
              LET field == FIELD_WEIGHTS[k][1]
                  weight == FIELD_WEIGHTS[k][2]
              IN  IF field \in DOMAIN entry /\ Strip(entry[field]) # ""
                  THEN weight * (700 + 3 * Min(Len(Strip(entry[field])), 100))
                  ELSE 0])

\* re.sub(r'\s+', ' ', s)
RECURSIVE CollapseWhitespace(_)
CollapseWhitespace(s) ==
    IF s = "" THEN ""
    ELSE IF Char(s, 1) \in Whitespace
    THEN " " \o CollapseWhitespace(DropN(s, RunLen(s, 1, Whitespace)))
    ELSE Char(s, 1) \o CollapseWhitespace(DropN(s, 1))

clean_field_value(value) ==
    IF value = "" THEN ""
    ELSE LET v == CollapseWhitespace(Strip(value))
             quoted == \/ Char(v, 1) = "\"" /\ Char(v, Len(v)) = "\""
                       \/ Char(v, 1) = "{" /\ Char(v, Len(v)) = "}"
         IN  Strip(IF quoted THEN Sub(v, 2, Len(v) - 1) ELSE v)

\* len(s.split())
RECURSIVE WordCountFrom(_, _)
WordCountFrom(s, i) ==
    IF i > Len(s) THEN 0
    ELSE IF Char(s, i) \in Whitespace THEN WordCountFrom(s, i + 1)
    ELSE 1 + WordCountFrom(s, i + RunLenNot(s, i, Whitespace))

is_field_more_complete(value1, value2) ==
    LET v1 == clean_field_value(value1)
        v2 == clean_field_value(value2)
        len1 == Len(v1)
        len2 == Len(v2)
        longest == IF len1 >= len2 THEN len1 ELSE len2
    IN  IF v1 = "" THEN FALSE
        ELSE IF v2 = "" THEN TRUE
        ELSE IF 10 * Abs(len1 - len2) > 3 * longest THEN len1 > len2
        ELSE WordCountFrom(v1, 1) >= WordCountFrom(v2, 1)

\* len(re.split(r'\s+and\s+', author_str, flags=re.IGNORECASE)), from position i
RECURSIVE CountAuthorsFrom(_, _)
CountAuthorsFrom(s, i) ==
    IF i > Len(s) THEN 1
    ELSE LET r == RunLen(s, i, Whitespace)
             r2 == RunLen(s, i + r + 3, Whitespace)
         IN  IF r > 0 /\ Lower(Sub(s, i + r, i + r + 2)) = "and" /\ r2 > 0
             THEN 1 + CountAuthorsFrom(s, i + r + 3 + r2)
             ELSE CountAuthorsFrom(s, i + 1)

count_authors(author_str) == CountAuthorsFrom(author_str, 1)

NotBlank(v) == v # "" /\ Strip(v) # ""

\* max(values, key=len): the first of the longest
Longest(values) ==
    values[CHOOSE k \in 1..Len(values) :
              /\ \A j \in 1..Len(values) : Len(values[j]) <= Len(values[k])
              /\ \A j \in 1..(k - 1) : Len(values[j]) < Len(values[k])]

merge_author_field(authors_list) ==
    LET authors == SelectSeq(authors_list, NotBlank)
        Less(a, b) == \/ count_authors(a) < count_authors(b)
                      \/ count_authors(a) = count_authors(b) /\ Len(a) < Len(b)
    IN  IF authors = <<>> THEN ""
        ELSE IF Len(authors) = 1 THEN authors[1]
        ELSE authors[CHOOSE k \in 1..Len(authors) :
                        /\ \A j \in 1..Len(authors) : ~Less(authors[k], authors[j])
                        /\ \A j \in 1..(k - 1) : Less(authors[j], authors[k])]

\* the en dash U+2013, written as a character that no other string of the
\* model has (a TLA+ string holds ASCII only)
EN_DASH == "~"

\* the third literal of the range test (line 174): not U+2013 but the three
\* characters U+00E2 U+20AC U+201C, the UTF-8 bytes of an en dash read as
\* cp1252; each is written as a character that no other string of the model has
EN_DASH_LITERAL == "^$|"

merge_pages_field(pages_list) ==
    LET pages == SelectSeq(pages_list, NotBlank)
        IsRange(p) == Contains(p, "-") \/ Contains(p, "--")
                      \/ Contains(p, EN_DASH_LITERAL)
        range_pages == SelectSeq(pages, IsRange)
    IN  IF pages = <<>> THEN ""
        ELSE IF Len(pages) = 1 THEN pages[1]
        ELSE IF range_pages # <<>> THEN Longest(range_pages)
        ELSE Longest(pages)

type_priority ==
    <<"article", "inproceedings", "book", "incollection", "inbook", "proceedings",
      "conference", "techreport", "phdthesis", "mastersthesis", "unpublished",
      "misc">>

\* a merge that always starts from the first entry
MergeBaseFirstEntry(entries, source_priority) == entries[1]

\* the entry the merge starts from
MergeBase(entries, source_priority) ==
    LET HasSource(k) == \E j \in 1..Len(entries) :
                           Get(entries[j], "_source", None) = source_priority[k]
    IN  IF source_priority # <<>>
        THEN IF \E k \in 1..Len(source_priority) : HasSource(k)
             THEN LET k == CHOOSE k \in 1..Len(source_priority) :
                              HasSource(k) /\ \A m \in 1..(k - 1) : ~HasSource(m)
                      j == CHOOSE j \in 1..Len(entries) :
                              /\ Get(entries[j], "_source", None) = source_priority[k]
                              /\ \A m \in 1..(j - 1) :
                                    Get(entries[m], "_source", None) # source_priority[k]
                  IN  entries[j]
             ELSE entries[1]
        ELSE entries[CHOOSE k \in 1..Len(entries) :
                /\ \A j \in 1..Len(entries) :
                      calculate_completeness_score(entries[j])
                         <= calculate_completeness_score(entries[k])
                /\ \A j \in 1..(k - 1) :
                      calculate_completeness_score(entries[j])
                         < calculate_completeness_score(entries[k])]

\* the values of a field in the entries that have it non-blank, in order
RECURSIVE FieldValues(_, _)
FieldValues(entries, field) ==
    IF entries = <<>> THEN <<>>
    ELSE (IF field \in DOMAIN Head(entries) /\ NotBlank(Head(entries)[field])
          THEN <<Head(entries)[field]>> ELSE <<>>)
         \o FieldValues(Tail(entries), field)

\* the loop that keeps the most complete of the values
RECURSIVE BestValue(_, _)
BestValue(best_value, values) ==
    IF values = <<>> THEN best_value
    ELSE BestValue(IF is_field_more_complete(Head(values), best_value)
                   THEN Head(values) ELSE best_value,
                   Tail(values))

MergedField(entries, field) ==
    LET field_values == FieldValues(entries, field)
    IN  IF field = "author" THEN merge_author_field(field_values)
        ELSE IF field = "pages" THEN merge_pages_field(field_values)
        ELSE BestValue(Head(field_values), Tail(field_values))

merge_entries(entries, original_id, source_priority) ==
    IF entries = <<>> THEN [k \in {} |-> ""]
    ELSE IF Len(entries) = 1 THEN entries[1]
    ELSE LET weighted == {FIELD_WEIGHTS[k][1] : k \in 1..Len(FIELD_WEIGHTS)}
             entry_types == {Lower(entries[k]["ENTRYTYPE"]) :
                                k \in {j \in 1..Len(entries) :
                                          Get(entries[j], "ENTRYTYPE", "") # ""}}
         IN  TheOne({
                 [f \in DOMAIN base \cup {"ID", "_merged_from"} \cup filled
                        \cup (IF preferred # {} THEN {"ENTRYTYPE"} ELSE {}) |->
                     IF f = "_merged_from"
                     THEN [k \in 1..Len(entries) |->
                              Get(entries[k], "_source", "unknown")]
                     ELSE IF f = "ENTRYTYPE" /\ preferred # {}
                     THEN type_priority[CHOOSE k \in preferred :
                                           \A m \in preferred : k <= m]
                     ELSE IF f \in filled THEN MergedField(entries, f)
                     ELSE IF f = "ID" THEN original_id
                     ELSE base[f]] :
                 base \in {MergeBase(entries, source_priority)},
                 filled \in {{f \in weighted : FieldValues(entries, f) # <<>>}},
                 preferred \in {{k \in 1..Len(type_priority) :
                                    type_priority[k] \in entry_types}}})

(***************************************************************************)
(* The ChangeLogger: [changes, stats].                                     *)
(***************************************************************************)
NewChangeLogger ==
    [changes |-> <<>>,
     stats |-> [total_entries |-> 0, entries_modified |-> 0, arxiv_replaced |-> 0,
                fields_added |-> 0, fields_updated |-> 0, titles_formatted |-> 0,
                journals_normalized |-> 0, errors |-> 0]]

log_entry_processed(logger, entry_id) ==
    [logger EXCEPT !.stats.total_entries = @ + 1]

log_field_added(logger, entry_id, field_name, new_value, source) ==
    [changes |-> Append(logger.changes,
                        [entry_id |-> entry_id, change_type |-> "field_added",
                         field |-> field_name, old_value |-> None,
                         new_value |-> new_value, source |-> source]),
     stats |-> [logger.stats EXCEPT !.fields_added = @ + 1]]

log_field_updated(logger, entry_id, field_name, old_value, new_value, reason) ==
    [changes |-> Append(logger.changes,
                        [entry_id |-> entry_id, change_type |-> "field_updated",
                         field |-> field_name, old_value |-> old_value,
                         new_value |-> new_value, reason |-> reason]),
     stats |-> [logger.stats EXCEPT !.fields_updated = @ + 1]]

log_arxiv_replacement(logger, entry_id, arxiv_id, doi, source) ==
    [changes |-> Append(logger.changes,
                        [entry_id |-> entry_id, change_type |-> "arxiv_replaced",
                         arxiv_id |-> arxiv_id, doi |-> doi, source |-> source]),
     stats |-> [logger.stats EXCEPT !.arxiv_replaced = @ + 1]]

log_title_formatted(logger, entry_id, old_title, new_title, format_type) ==
    [changes |-> Append(logger.changes,
                        [entry_id |-> entry_id, change_type |-> "title_formatted",
                         field |-> "title", old_value |-> old_title,
                         new_value |-> new_title, format_type |-> format_type]),
     stats |-> [logger.stats EXCEPT !.titles_formatted = @ + 1]]

log_journal_normalized(logger, entry_id, old_journal, new_journal, format_type) ==
    [changes |-> Append(logger.changes,
                        [entry_id |-> entry_id, change_type |-> "journal_normalized",
                         field |-> "journal", old_value |-> old_journal,
                         new_value |-> new_journal, format_type |-> format_type]),
     stats |-> [logger.stats EXCEPT !.journals_normalized = @ + 1]]

\* a log_error that appends the record and leaves the counter
log_error_without_count(logger, entry_id, error_message) ==
    [changes |-> Append(logger.changes,
                        [entry_id |-> entry_id, change_type |-> "error",
                         error |-> error_message]),
     stats |-> logger.stats]

log_error(logger, entry_id, error_message) ==
    [changes |-> Append(logger.changes,
                        [entry_id |-> entry_id, change_type |-> "error",
                         error |-> error_message]),
     stats |-> [logger.stats EXCEPT !.errors = @ + 1]]

(***************************************************************************)
(* The inputs of the model: BibTeX texts the sources can return, with the  *)
(* record bibtexparser parses from each, and the entries of input files.   *)
(***************************************************************************)
T_FULL == "@article{771073, title={Deep Learning for Vision}, ...}"

T_OTHER == "@article{qc2020, title={Quantum Computing Survey}, ...}"

T_GARBAGE == "<html>Access denied</html>"

Texts == {T_FULL, T_OTHER, T_GARBAGE}

\* parse_bibtex_string: the first entry bibtexparser finds in the text; the empty
\* dict stands for None (both are falsy)
NoEntry == [k \in {} |-> ""]

parse_bibtex_string(bibtex_str) ==
    CASE bibtex_str = T_FULL ->
             [ID |-> "771073", ENTRYTYPE |-> "article",
              title |-> "Deep Learning for Vision",
              author |-> "Smith, John and Doe, Jane",
              journal |-> "Proceedings of the IEEE", volume |-> "87",
              number |-> "7", pages |-> "100--110", publisher |-> "IEEE",
              year |-> "2021", doi |-> "https://doi.org/10.1109/5.771073"]
      [] bibtex_str = T_OTHER ->
             [ID |-> "qc2020", ENTRYTYPE |-> "article",
              title |-> "Quantum Computing Survey", author |-> "Roe, Rita",
              journal |-> "Nature", year |-> "2020", pages |-> "1--9"]
      [] OTHER -> NoEntry

IsNoEntry(entry) == DOMAIN entry = {}

E_IEEE ==
    [ID |-> "smith2020", ENTRYTYPE |-> "article",
     title |-> "Deep Learning for Vision Applications",
     author |-> "Smith, John and Doe, Jane", year |-> "2020",
     doi |-> "10.1109/5.771073"]

E_CORRECTED ==
    [ID |-> "old2019", ENTRYTYPE |-> "article",
     title |-> "Deep Learning for Vision", url |-> "https://doi.org/10.1109/WRONG.DOI"]

E_ACM ==
    [ID |-> "lee2021", ENTRYTYPE |-> "inproceedings", year |-> "2021",
     doi |-> "https://doi.org/10.1145/3456789"]

E_ARXIV ==
    [ID |-> "wang2024", ENTRYTYPE |-> "article", title |-> "Quantum Computing",
     url |-> "https://arxiv.org/abs/2410.03805"]

E_SPRINGER ==
    [ID |-> "roe2020", ENTRYTYPE |-> "article", title |-> "Quantum Computing Survey",
     doi |-> "10.1007/s001"]

E_INVALID ==
    [ID |-> "bad2018", ENTRYTYPE |-> "article", title |-> "Withdrawn Paper",
     doi |-> "10.1109/INVALID.DOI"]

E_PENDING ==
    [ID |-> "open2018", ENTRYTYPE |-> "article", title |-> "Unclear Paper",
     doi |-> "10.1109/PENDING.DOI"]

E_MALFORMED ==
    [ID |-> "typo2017", ENTRYTYPE |-> "article", title |-> "Mistyped Paper",
     doi |-> "99.1109/INVALID"]

E_NODOI ==
    [ID |-> "anon2016", ENTRYTYPE |-> "article", title |-> "No Identifier"]

E_COMPLETE ==
    [ID |-> "full2023", ENTRYTYPE |-> "article", title |-> "A Complete Entry",
     author |-> "Poe, Pat", year |-> "2023", journal |-> "IEEE TPAMI",
     volume |-> "1", number |-> "2", pages |-> "3--4", publisher |-> "IEEE",
     doi |-> "10.1109/TPAMI.2023.1234567"]

\* an arXiv preprint whose identifier is in eprint alone
E_PREPRINT ==
    [ID |-> "pre2024", ENTRYTYPE |-> "misc", title |-> "Deep Learning for Vision",
     eprint |-> "2410.03805", archiveprefix |-> "arXiv"]

SampleEntries == <<E_IEEE, E_CORRECTED, E_COMPLETE, E_ACM, E_INVALID, E_ARXIV,
                   E_MALFORMED, E_SPRINGER, E_PENDING, E_NODOI, E_PREPRINT>>

\* the input files: MaxEntries consecutive sample entries, from any start
InputFiles ==
    {[k \in 1..MaxEntries |->
         SampleEntries[((start + k - 2) % Len(SampleEntries)) + 1]] :
     start \in 1..Len(SampleEntries)}

(***************************************************************************)
(* What the outside world can answer.                                      *)
(***************************************************************************)
Ok(url, text) == Answer("", 200, url, text)

Http(status_code) == Answer("", status_code, "", "")

Raises(exc) == Answer(exc, 0, "", "")

\* the answers of the DOI resolver to verify_doi_exists' HEAD request
VerifyEnvs ==
    {<<Http(302)>>, <<Http(404)>>, <<Http(403)>>, <<Raises("Timeout")>>,
     <<Raises("ProxyError"), Http(200)>>}

\* the answers to the last request of an adapter
DownloadAnswers ==
    {<<Ok("", text)>> : text \in Texts}
    \cup {<<Http(404)>>, <<Raises("SSLError"), Raises("SSLError")>>}

AdapterEnvs(adapter) ==
    CASE adapter = "IEEE" ->
             {<< <<Ok("https://ieeexplore.ieee.org/document/771073", "")>>, a >> :
                 a \in DownloadAnswers}
             \cup {<< <<Http(403)>>, <<>> >>}
      [] adapter = "ACM" ->
             {<< <<Ok("https://dl.acm.org/doi/10.1145/3456789", "")>>, a >> :
                 a \in DownloadAnswers}
             \cup {<< <<Ok("https://dl.acm.org/action/cookieAbsent", "")>>, <<>> >>}
      [] adapter \in {"arXiv", "CrossRef"} ->
             {<<a>> : a \in DownloadAnswers}
      [] adapter = "IEEE-Selenium" ->
             {<<T_FULL, None>>,
              <<None, "Could not find 'Cite This' button on IEEE page">>}
      [] adapter = "Scholar" ->
             {<<text, None>> : text \in {T_FULL, T_OTHER}}
             \cup {<<None, "Google Scholar result title mismatch (overlap: 0/3)">>}
      [] OTHER -> {<<>>}

(***************************************************************************)
(* The state.                                                              *)
(***************************************************************************)
VARIABLES
    driver,      \* the function that runs: complete_bibtex_file(interactive=False)
                 \* or workflow_complete_bibtex; "client" when the functions of the
                 \* module are called one by one
    entries,     \* bib_database.entries
    i,           \* the index of the entry the loop is at, from 1
    pc,          \* where the run is
    now,         \* time.time(), in days
    cache,       \* the files of .cache: path -> {doi, bibtex, timestamp}
    failed_log,  \* data/failed_dois.json
    run,         \* the counters and lists of the driver
    logger,      \* the ChangeLogger of workflow_complete_bibtex
    loc,         \* the locals of the loop body for the current entry
    fc,          \* the frame of fetch_complete_bibtex
    trace,       \* history: what was done for the current entry, in order
    output,      \* the entries written to the output file (<<>> before)
    call,        \* client calls: the last call made, function and arguments
    ret          \* client calls: what the last call returned

vars == <<driver, entries, i, pc, now, cache, failed_log, run, logger, loc, fc,
          trace, output, call, ret>>

Ev(op, name, doi, ok) == [op |-> op, name |-> name, doi |-> doi, ok |-> ok]

\* outcome is history: how the loop body ended for the entry
NoLocals ==
    [entry_id |-> None, missing |-> <<>>, present |-> <<>>, original_doi |-> None,
     doi |-> None, was_cached |-> FALSE, publisher |-> None, outcome |-> "",
     original_entry |-> NoEntry]

\* cache0 is history: the cache files when fetch_complete_bibtex was called;
\* errors is history: the error messages the adapters returned, in call order
NoFrame ==
    [doi |-> None, publisher |-> None, title |-> None, author |-> None,
     error_msg |-> None, crossref_error |-> None, result |-> <<None, None>>,
     cache0 |-> [path \in {} |-> None], errors |-> <<>>]

NewRun ==
    [completed_count |-> 0, failed_entries |-> <<>>, cache_hits |-> 0,
     doi_validation_failures |-> 0, failed_count |-> 0, slept |-> <<>>]

NoCall == [f |-> None]

\* the cache a run can find: nothing, or T_FULL cached by an earlier run for the
\* DOI of E_IEEE, just now, CACHE_EXPIRY_DAYS ago or longer ago
InitialCaches ==
    {[path \in {} |-> None]}
    \cup {cache_bibtex([path \in {} |-> None], t, "10.1109/5.771073", T_FULL) :
          t \in {MaxClock, MaxClock - CACHE_EXPIRY_DAYS, 0}}

Init ==
    /\ driver \in {"complete_bibtex_file", "workflow_complete_bibtex"}
    /\ entries \in InputFiles
    /\ i = 1
    /\ pc = "loop"
    /\ now = MaxClock
    /\ cache \in InitialCaches
    /\ failed_log = <<>>
    /\ run = NewRun
    /\ logger = NewChangeLogger
    /\ loc = NoLocals
    /\ fc = NoFrame
    /\ trace = <<>>
    /\ output = <<>>
    /\ call = NoCall
    /\ ret = None

(***************************************************************************)
(* fetch_complete_bibtex(doi, publisher, title, author), one action per    *)
(* source it tries.  It starts at pc = "fc_cache" with its arguments in fc *)
(* and ends at pc = "fc_return" with fc.result = <<bibtex, error>>.        *)
(***************************************************************************)
\* the publishers with a scraper of their own, without the arXiv branch
PublisherAdaptersWithoutArxiv == {"IEEE", "ACM"}

\* the publishers with a scraper of their own
PublisherAdapters == {"IEEE", "ACM", "arXiv"}

CallAdapter(adapter, doi, title, author, env) ==
    CASE adapter = "IEEE" -> fetch_bibtex_from_ieee(doi, env)
      [] adapter = "IEEE-Selenium" -> fetch_bibtex_from_ieee_selenium(doi, env)
      [] adapter = "ACM" -> fetch_bibtex_from_acm(doi, env)
      [] adapter = "arXiv" -> fetch_bibtex_from_arxiv(doi, env)
      [] adapter = "CrossRef" -> fetch_bibtex_from_crossref(doi, env)
      [] adapter = "Scholar" -> fetch_bibtex_from_scholar(title, author, env)

\* the history of a call of an adapter: Google Scholar is called with the title
\* and the author, the others with the DOI
AdapterEv(adapter, ok) ==
    Ev("adapter", adapter, IF adapter = "Scholar" THEN None ELSE fc.doi, ok)

\* final_error when there is no title for the Google Scholar fallback
FinalErrorWithoutTitle(publisher, error_msg, crossref_error) ==
    IF Truthy(error_msg)
    THEN publisher \o " failed: " \o error_msg
         \o "; CrossRef fallback failed: " \o crossref_error
    ELSE crossref_error

\* final_error that leaves out the error of the publisher's scraper
FinalErrorWithTitleLastTwoOnly(publisher, error_msg, crossref_error, scholar_error) ==
    "CrossRef failed: " \o crossref_error \o "; Scholar failed: " \o scholar_error

\* final_error after the Google Scholar fallback failed
FinalErrorWithTitle(publisher, error_msg, crossref_error, scholar_error) ==
    IF Truthy(error_msg)
    THEN publisher \o " failed: " \o error_msg
         \o "; CrossRef failed: " \o crossref_error
         \o "; Scholar failed: " \o scholar_error
    ELSE "CrossRef failed: " \o crossref_error
         \o "; Scholar failed: " \o scholar_error

\* cache_bibtex(doi, bibtex); return bibtex, None
FcSucceed(adapter, bibtex) ==
    /\ cache' = cache_bibtex(cache, now, fc.doi, bibtex)
    /\ fc' = [fc EXCEPT !.result = <<bibtex, None>>]
    /\ trace' = trace \o <<AdapterEv(adapter, TRUE),
                           Ev("cache_put", bibtex, fc.doi, TRUE)>>
    /\ pc' = "fc_return"

\* the cache check
FcCache ==
    /\ pc = "fc_cache"
    /\ LET cached == get_cached_bibtex(cache, now, fc.doi)
       IN  /\ trace' = Append(trace, Ev("cache_get", "", fc.doi, Truthy(cached)))
           /\ IF Truthy(cached)
              THEN /\ fc' = [fc EXCEPT !.result = <<cached, None>>]
                   /\ pc' = "fc_return"
              ELSE /\ fc' = [fc EXCEPT !.publisher =
                                IF Truthy(@) THEN @ ELSE identify_publisher(fc.doi)]
                   /\ pc' = "fc_publisher"
    /\ UNCHANGED <<driver, entries, i, now, cache, failed_log, run, logger, loc,
                   output, call, ret>>

\* the publisher-specific scraper, if the publisher has one
FcPublisher ==
    /\ pc = "fc_publisher"
    /\ IF fc.publisher \in PublisherAdapters
       THEN \E env \in AdapterEnvs(fc.publisher) :
               LET r == CallAdapter(fc.publisher, fc.doi, fc.title, fc.author, env)
               IN  IF Truthy(r[1])
                   THEN FcSucceed(fc.publisher, r[1])
                   ELSE /\ fc' = [fc EXCEPT !.error_msg = r[2],
                                            !.errors = Append(@, r[2])]
                        /\ trace' = Append(trace, AdapterEv(fc.publisher, FALSE))
                        /\ pc' = IF fc.publisher = "IEEE"
                                 THEN "fc_selenium" ELSE "fc_crossref"
                        /\ UNCHANGED cache
       ELSE /\ pc' = "fc_crossref"
            /\ UNCHANGED <<fc, trace, cache>>
    /\ UNCHANGED <<driver, entries, i, now, failed_log, run, logger, loc, output,
                   call, ret>>

\* the Selenium fallback for IEEE
FcSelenium ==
    /\ pc = "fc_selenium"
    /\ \E env \in AdapterEnvs("IEEE-Selenium") :
          LET r == CallAdapter("IEEE-Selenium", fc.doi, fc.title, fc.author, env)
          IN  IF Truthy(r[1])
              THEN FcSucceed("IEEE-Selenium", r[1])
              ELSE /\ fc' = [fc EXCEPT !.error_msg =
                                "IEEE API: " \o @ \o "; IEEE Selenium: " \o r[2],
                                        !.errors = Append(@, r[2])]
                   /\ trace' = Append(trace, AdapterEv("IEEE-Selenium", FALSE))
                   /\ pc' = "fc_crossref"
                   /\ UNCHANGED cache
    /\ UNCHANGED <<driver, entries, i, now, failed_log, run, logger, loc, output,
                   call, ret>>

\* the CrossRef fallback, and the return without a title for Google Scholar
FcCrossRef ==
    /\ pc = "fc_crossref"
    /\ \E env \in AdapterEnvs("CrossRef") :
          LET r == CallAdapter("CrossRef", fc.doi, fc.title, fc.author, env)
              final_error == FinalErrorWithoutTitle(fc.publisher, fc.error_msg, r[2])
          IN  IF Truthy(r[1])
              THEN FcSucceed("CrossRef", r[1])
              ELSE /\ trace' = Append(trace, AdapterEv("CrossRef", FALSE))
                   /\ UNCHANGED cache
                   /\ IF Truthy(fc.title)
                      THEN /\ fc' = [fc EXCEPT !.crossref_error = r[2],
                                               !.errors = Append(@, r[2])]
                           /\ pc' = "fc_scholar"
                      ELSE /\ fc' = [fc EXCEPT !.crossref_error = r[2],
                                               !.errors = Append(@, r[2]),
                                               !.result = <<None, final_error>>]
                           /\ pc' = "fc_return"
    /\ UNCHANGED <<driver, entries, i, now, failed_log, run, logger, loc, output,
                   call, ret>>

\* the Google Scholar fallback
FcScholar ==
    /\ pc = "fc_scholar"
    /\ \E env \in AdapterEnvs("Scholar") :
          LET r == CallAdapter("Scholar", fc.doi, fc.title, fc.author, env)
              final_error == FinalErrorWithTitle(fc.publisher, fc.error_msg,
                                                 fc.crossref_error, r[2])
          IN  IF Truthy(r[1])
              THEN FcSucceed("Scholar", r[1])
              ELSE /\ fc' = [fc EXCEPT !.result = <<None, final_error>>,
                                        !.errors = Append(@, r[2])]
                   /\ trace' = Append(trace, AdapterEv("Scholar", FALSE))
                   /\ pc' = "fc_return"
                   /\ UNCHANGED cache
    /\ UNCHANGED <<driver, entries, i, now, failed_log, run, logger, loc, output,
                   call, ret>>

(***************************************************************************)
(* complete_bibtex_file(input_file, output_file, interactive=False).       *)
(***************************************************************************)
\* a rejection by the Validator that goes on to the CrossRef fallback, once,
\* instead of ending the entry
CbfFailOrNextAdapter(outcome) ==
    IF outcome = "validation_failed"
       /\ \A k \in 1..Len(trace) : trace[k].name # "CrossRef"
    THEN /\ pc' = "fc_crossref"
         /\ UNCHANGED <<run, loc, i>>
    ELSE /\ run' = [run EXCEPT !.failed_entries = Append(@, loc.entry_id)]
         /\ loc' = [loc EXCEPT !.outcome = outcome]
         /\ i' = i + 1
         /\ pc' = "loop"

\* a failure that ends the loop instead of going on with the next entry
CbfFailEndsRun(outcome) ==
    /\ run' = [run EXCEPT !.failed_entries = Append(@, loc.entry_id)]
    /\ loc' = [loc EXCEPT !.outcome = outcome]
    /\ i' = i
    /\ pc' = "aborted"

\* failed_entries.append(entry_id); continue
CbfFail(outcome) ==
    /\ run' = [run EXCEPT !.failed_entries = Append(@, loc.entry_id)]
    /\ loc' = [loc EXCEPT !.outcome = outcome]
    /\ i' = i + 1
    /\ pc' = "loop"

\* author.split(' and ')[0]
FirstAuthor(author) ==
    LET k == FindFrom(author, " and ", 1)
    IN  IF k = 0 THEN author ELSE Sub(author, 1, k - 1)

\* the head of the loop: the completeness check, or the end of the loop
CbfLoop ==
    /\ driver = "complete_bibtex_file"
    /\ pc = "loop"
    /\ IF i > Len(entries)
       THEN /\ pc' = "write"
            /\ UNCHANGED <<i, loc, trace>>
       ELSE LET entry == entries[i]
                cc == check_completeness(entry)
            IN  /\ trace' = <<>>
                /\ loc' = [NoLocals EXCEPT !.entry_id = Get(entry, "ID", "Unknown ID"),
                                           !.present = cc[1], !.missing = cc[2],
                                           !.outcome = IF cc[2] = <<>>
                                                       THEN "complete" ELSE ""]
                /\ IF cc[2] = <<>>
                   THEN i' = i + 1 /\ pc' = "loop"
                   ELSE i' = i /\ pc' = "extract"
    /\ UNCHANGED <<driver, entries, now, cache, failed_log, run, logger, fc,
                   output, call, ret>>

\* doi = extract_doi(entry)
CbfExtract ==
    /\ driver = "complete_bibtex_file"
    /\ pc = "extract"
    /\ LET doi == extract_doi(entries[i])
       IN  IF ~Truthy(doi)
           THEN /\ failed_log' = log_failed_doi(failed_log, now, "N/A", loc.entry_id,
                                                None, "No DOI found in entry")
                /\ trace' = Append(trace, Ev("log", "No DOI found in entry", "N/A", TRUE))
                /\ CbfFail("no_doi")
           ELSE /\ loc' = [loc EXCEPT !.original_doi = doi, !.doi = doi]
                /\ pc' = "correct"
                /\ UNCHANGED <<failed_log, trace, run, i>>
    /\ UNCHANGED <<driver, entries, now, cache, logger, fc, output, call, ret>>

\* corrected_doi, was_corrected, correction_msg = apply_doi_correction(doi)
CbfCorrect ==
    /\ driver = "complete_bibtex_file"
    /\ pc = "correct"
    /\ LET c == apply_doi_correction(loc.doi)
       IN  IF c[2] /\ c[1] = None
           THEN CbfFail("known_invalid")
           ELSE /\ loc' = [loc EXCEPT !.doi = IF c[2] THEN c[1] ELSE @]
                /\ pc' = "verify"
                /\ UNCHANGED <<run, i>>
    /\ UNCHANGED <<driver, entries, now, cache, failed_log, logger, fc, trace,
                   output, call, ret>>

\* doi_valid, doi_error = verify_doi_exists(doi)
CbfVerify ==
    /\ driver = "complete_bibtex_file"
    /\ pc = "verify"
    /\ \E answers \in VerifyEnvs :
          LET v == verify_doi_exists(loc.doi, answers)
              error_message == "DOI validation failed: " \o v[2]
          IN  IF ~v[1]
              THEN /\ failed_log' = log_failed_doi(failed_log, now, loc.doi,
                                                   loc.entry_id,
                                                   identify_publisher(loc.doi),
                                                   error_message)
                   /\ trace' = trace \o <<Ev("verify", "", loc.doi, FALSE),
                                          Ev("identify", "", loc.doi, TRUE),
                                          Ev("log", error_message, loc.doi, TRUE)>>
                   /\ run' = [run EXCEPT
                                 !.doi_validation_failures = @ + 1,
                                 !.failed_entries = Append(@, loc.entry_id)]
                   /\ loc' = [loc EXCEPT !.outcome = "doi_validation_failed"]
                   /\ i' = i + 1
                   /\ pc' = "loop"
              ELSE /\ trace' = Append(trace, Ev("verify", "", loc.doi, TRUE))
                   /\ pc' = "prefetch"
                   /\ UNCHANGED <<failed_log, run, i, loc>>
    /\ UNCHANGED <<driver, entries, now, cache, logger, fc, output, call, ret>>

\* was_cached, entry_title, entry_author, publisher, and the call of
\* fetch_complete_bibtex(doi, publisher, entry_title, entry_author)
CbfStartFetch ==
    /\ driver = "complete_bibtex_file"
    /\ pc = "prefetch"
    /\ LET entry == entries[i]
           was_cached == get_cached_bibtex(cache, now, loc.doi) # None
           entry_title == Strip(Get(entry, "title", ""))
           entry_author == IF "author" \in DOMAIN entry
                           THEN FirstAuthor(entry["author"]) ELSE None
           publisher == identify_publisher(loc.doi)
       IN  /\ loc' = [loc EXCEPT !.was_cached = was_cached, !.publisher = publisher]
           /\ fc' = [NoFrame EXCEPT !.doi = loc.doi, !.publisher = publisher,
                                    !.title = entry_title, !.author = entry_author,
                                    !.cache0 = cache]
           /\ trace' = trace \o <<Ev("cache_get", "", loc.doi, was_cached),
                                  Ev("identify", "", loc.doi, TRUE)>>
    /\ pc' = "fc_cache"
    /\ UNCHANGED <<driver, entries, i, now, cache, failed_log, run, logger,
                   output, call, ret>>

\* after fetch_complete_bibtex: parse, validate, merge, rate limiting
CbfAfterFetch ==
    /\ driver = "complete_bibtex_file"
    /\ pc = "fc_return"
    /\ LET entry == entries[i]
           fetched_bibtex == fc.result[1]
           fetch_error == fc.result[2]
           fetched_entry == parse_bibtex_string(fetched_bibtex)
           v == validate_fetched_bibtex(entry, fetched_entry)
           merged_entry == merge_bibtex_entries(entry, fetched_entry, TRUE)
           error_msg ==
               IF ~Truthy(fetched_bibtex)
               THEN IF Truthy(fetch_error) THEN fetch_error ELSE "Unknown error"
               ELSE IF IsNoEntry(fetched_entry) THEN "Failed to parse fetched BibTeX"
               ELSE "Validation failed: " \o v[2]
       IN  IF ~Truthy(fetched_bibtex) \/ IsNoEntry(fetched_entry)
           THEN /\ failed_log' = log_failed_doi(failed_log, now, loc.doi, loc.entry_id,
                                                loc.publisher, error_msg)
                /\ trace' = Append(trace, Ev("log", error_msg, loc.doi, TRUE))
                /\ CbfFail(IF ~Truthy(fetched_bibtex)
                           THEN "fetch_failed" ELSE "parse_failed")
                /\ UNCHANGED entries
           ELSE IF ~v[1]
           THEN /\ failed_log' = log_failed_doi(failed_log, now, loc.doi, loc.entry_id,
                                                loc.publisher, error_msg)
                /\ trace' = trace \o <<Ev("validate", fetched_bibtex, loc.doi, FALSE),
                                       Ev("log", error_msg, loc.doi, TRUE)>>
                /\ CbfFail("validation_failed")
                /\ UNCHANGED entries
           ELSE /\ entries' = [entries EXCEPT ![i] = merged_entry]
                /\ trace' = trace \o <<Ev("validate", fetched_bibtex, loc.doi, TRUE),
                                       Ev("merge", fetched_bibtex, loc.doi, TRUE)>>
                /\ run' = [run EXCEPT
                              !.completed_count = @ + 1,
                              !.cache_hits = IF loc.was_cached THEN @ + 1 ELSE @,
                              !.slept = Append(@, IF loc.was_cached
                                                  THEN RATE_LIMIT_CACHE_DELAY
                                                  ELSE RATE_LIMIT_DELAY)]
                /\ loc' = [loc EXCEPT !.outcome = "merged"]
                /\ i' = i + 1
                /\ pc' = "loop"
                /\ UNCHANGED failed_log
    /\ UNCHANGED <<driver, now, cache, logger, fc, output, call, ret>>

\* bibtexparser.dump(bib_database, output)
CbfWrite ==
    /\ driver = "complete_bibtex_file"
    /\ pc = "write"
    /\ output' = entries
    /\ pc' = "done"
    /\ UNCHANGED <<driver, entries, i, now, cache, failed_log, run, logger, loc, fc,
                   trace, call, ret>>

(***************************************************************************)
(* workflow_complete_bibtex, step 2 (completing missing fields) and the    *)
(* write of step 5.                                                        *)
(***************************************************************************)
\* `continue` and the end of the loop body
WfNext(outcome, failed) ==
    /\ run' = [run EXCEPT !.failed_count = IF failed THEN @ + 1 ELSE @,
                          !.completed_count = IF outcome = "merged" THEN @ + 1 ELSE @]
    /\ loc' = [loc EXCEPT !.outcome = outcome]
    /\ i' = i + 1
    /\ pc' = "loop"

\* the for loop over the fields that were missing, logging the added ones
RECURSIVE LogAddedFields(_, _, _, _, _)
LogAddedFields(lg, entry_id, fields, merged_entry, source) ==
    IF fields = <<>> THEN lg
    ELSE LET field == Head(fields)
             next == IF field \in DOMAIN merged_entry /\ merged_entry[field] # ""
                     THEN log_field_added(lg, entry_id, field, merged_entry[field],
                                          source)
                     ELSE lg
         IN  LogAddedFields(next, entry_id, Tail(fields), merged_entry, source)

\* the head of the loop: log_entry_processed and the completeness check
WfLoop ==
    /\ driver = "workflow_complete_bibtex"
    /\ pc = "loop"
    /\ IF i > Len(entries)
       THEN /\ pc' = "write"
            /\ UNCHANGED <<i, loc, trace, logger>>
       ELSE LET entry == entries[i]
                entry_id == Get(entry, "ID", "entry_" \o ToString(i))
                cc == check_completeness(entry)
            IN  /\ trace' = <<>>
                /\ logger' = log_entry_processed(logger, entry_id)
                /\ loc' = [NoLocals EXCEPT !.entry_id = entry_id,
                                           !.present = cc[1], !.missing = cc[2],
                                           !.outcome = IF cc[2] = <<>>
                                                       THEN "complete" ELSE ""]
                /\ IF cc[2] = <<>>
                   THEN i' = i + 1 /\ pc' = "loop"
                   ELSE i' = i /\ pc' = "extract"
    /\ UNCHANGED <<driver, entries, now, cache, failed_log, run, fc, output,
                   call, ret>>

\* doi = extract_doi(entry)
WfExtract ==
    /\ driver = "workflow_complete_bibtex"
    /\ pc = "extract"
    /\ LET doi == extract_doi(entries[i])
       IN  IF ~Truthy(doi)
           THEN WfNext("no_doi", TRUE)
           ELSE /\ loc' = [loc EXCEPT !.original_doi = doi, !.doi = doi]
                /\ pc' = "verify"
                /\ UNCHANGED <<run, i>>
    /\ UNCHANGED <<driver, entries, now, cache, failed_log, logger, fc, trace,
                   output, call, ret>>

\* `if not verify_doi_exists(doi)`: not of the tuple the function returns, which
\* is never empty; then identify_publisher and the call of fetch_complete_bibtex
WfVerify ==
    /\ driver = "workflow_complete_bibtex"
    /\ pc = "verify"
    /\ \E answers \in VerifyEnvs :
          LET entry == entries[i]
              v == verify_doi_exists(loc.doi, answers)
              publisher == identify_publisher(loc.doi)
          IN  IF Len(v) = 0
              THEN /\ logger' = log_error(logger, loc.entry_id,
                                          "Invalid DOI: " \o loc.doi)
                   /\ trace' = Append(trace, Ev("verify", "", loc.doi, FALSE))
                   /\ WfNext("doi_validation_failed", TRUE)
                   /\ UNCHANGED fc
              ELSE /\ loc' = [loc EXCEPT !.publisher = publisher]
                   /\ fc' = [NoFrame EXCEPT !.doi = loc.doi, !.publisher = publisher,
                                            !.title = Get(entry, "title", None),
                                            !.author = Get(entry, "author", None),
                                            !.cache0 = cache]
                   /\ trace' = trace \o <<Ev("verify", "", loc.doi, v[1]),
                                          Ev("identify", "", loc.doi, TRUE)>>
                   /\ pc' = "fc_cache"
                   /\ UNCHANGED <<logger, run, i>>
    /\ UNCHANGED <<driver, entries, now, cache, failed_log, output, call, ret>>

\* after fetch_complete_bibtex: parse, merge, log the added fields
WfAfterFetch ==
    /\ driver = "workflow_complete_bibtex"
    /\ pc = "fc_return"
    /\ LET entry == entries[i]
           fetched_bibtex_str == fc.result[1]
           error_msg == fc.result[2]
           fetched_bib == parse_bibtex_string(fetched_bibtex_str)
           merged_entry == merge_bibtex_entries(entry, fetched_bib, TRUE)
           error_display == IF Truthy(error_msg) THEN error_msg ELSE "Unknown error"
       IN  IF ~Truthy(fetched_bibtex_str)
           THEN /\ logger' = log_error(logger, loc.entry_id,
                                       "Failed to fetch: " \o error_display)
                /\ WfNext("fetch_failed", TRUE)
                /\ UNCHANGED <<entries, trace>>
           ELSE IF IsNoEntry(fetched_bib)
           THEN /\ logger' = log_error(logger, loc.entry_id,
                                       "Failed to parse fetched BibTeX")
                /\ WfNext("parse_failed", TRUE)
                /\ UNCHANGED <<entries, trace>>
           ELSE /\ entries' = [entries EXCEPT ![i] = merged_entry]
                /\ logger' = LogAddedFields(logger, loc.entry_id, loc.missing,
                                            merged_entry, loc.publisher)
                /\ trace' = Append(trace, Ev("merge", fetched_bibtex_str, loc.doi, TRUE))
                /\ run' = [run EXCEPT !.completed_count = @ + 1]
                /\ loc' = [loc EXCEPT !.outcome = "merged",
                                      !.original_entry = entry]
                /\ i' = i + 1
                /\ pc' = "loop"
    /\ UNCHANGED <<driver, now, cache, failed_log, fc, output, call, ret>>

\* the end of step 2: output is the entries as step 2 leaves them (the formatting
\* and arXiv steps that follow before the file is saved are not modelled)
WfWrite ==
    /\ driver = "workflow_complete_bibtex"
    /\ pc = "write"
    /\ output' = entries
    /\ pc' = "done"
    /\ UNCHANGED <<driver, entries, i, now, cache, failed_log, run, logger, loc, fc,
                   trace, call, ret>>

Next ==
    \/ CbfLoop
    \/ CbfExtract
    \/ CbfCorrect
    \/ CbfVerify
    \/ CbfStartFetch
    \/ CbfAfterFetch
    \/ CbfWrite
    \/ WfLoop
    \/ WfExtract
    \/ WfVerify
    \/ WfAfterFetch
    \/ WfWrite
    \/ FcCache
    \/ FcPublisher
    \/ FcSelenium
    \/ FcCrossRef
    \/ FcScholar

Spec == Init /\ [][Next]_vars

(***************************************************************************)
(* Clients that call the functions of complete_bibtex one by one, as the    *)
(* unit tests do: one (pc = "client_cache") calls the cache functions, with *)
(* time passing between the calls, the other (pc = "client_http") calls     *)
(* verify_doi_exists and the adapters.  trace is the history of the calls   *)
(* of cache_bibtex; call and ret are the last call and what it returned.    *)
(***************************************************************************)
\* two of the DOIs differ only in '/' against '_'
ClientDois == {"10.1109/5.771073", "10.1234/conf_2020", "10.1234/conf/2020"}

ClientVerifyDois ==
    {"10.1109/INVALID.2023.999", "10.1109/RESTRICTED.2023.123", "99.1109/INVALID"}

ClientAdapterDois ==
    {"10.1109/5.771073", "10.1145/3456789", "10.48550/arXiv.2410.03805"}

ClientInit ==
    /\ driver = "client"
    /\ entries = <<>>
    /\ i = 1
    /\ pc \in {"client_cache", "client_http"}
    /\ now = 0
    /\ cache = [path \in {} |-> None]
    /\ failed_log = <<>>
    /\ run = NewRun
    /\ logger = NewChangeLogger
    /\ loc = NoLocals
    /\ fc = NoFrame
    /\ trace = <<>>
    /\ output = <<>>
    /\ call = NoCall
    /\ ret = None

\* time passes
Tick ==
    /\ pc = "client_cache"
    /\ now + ClockStep <= MaxClock
    /\ now' = now + ClockStep
    /\ UNCHANGED <<driver, entries, i, pc, cache, failed_log, run, logger, loc, fc,
                   trace, output, call, ret>>

\* cache_bibtex(doi, bibtex)
ClientCacheBibtex ==
    /\ pc = "client_cache"
    /\ Len(trace) < MaxWrites
    /\ \E doi \in ClientDois, bibtex \in {T_FULL, T_OTHER} :
          /\ cache' = cache_bibtex(cache, now, doi, bibtex)
          /\ call' = [f |-> "cache_bibtex", doi |-> doi, bibtex |-> bibtex, at |-> now]
          /\ trace' = Append(trace, call')
          /\ ret' = None
    /\ UNCHANGED <<driver, entries, i, pc, now, failed_log, run, logger, loc, fc,
                   output>>

\* get_cached_bibtex(doi)
ClientGetCachedBibtex ==
    /\ pc = "client_cache"
    /\ \E doi \in ClientDois :
          /\ call' = [f |-> "get_cached_bibtex", doi |-> doi, at |-> now]
          /\ ret' = get_cached_bibtex(cache, now, doi)
    /\ UNCHANGED <<driver, entries, i, pc, now, cache, failed_log, run, logger, loc,
                   fc, trace, output>>

\* verify_doi_exists(doi)
ClientVerifyDoiExists ==
    /\ pc = "client_http"
    /\ \E doi \in ClientVerifyDois, answers \in VerifyEnvs :
          /\ call' = [f |-> "verify_doi_exists", doi |-> doi, answers |-> answers]
          /\ ret' = verify_doi_exists(doi, answers)
    /\ UNCHANGED <<driver, entries, i, pc, now, cache, failed_log, run, logger, loc,
                   fc, trace, output>>

\* fetch_bibtex_from_ieee(doi), _acm, _arxiv, _crossref
ClientFetch ==
    /\ pc = "client_http"
    /\ \E adapter \in {"IEEE", "ACM", "arXiv", "CrossRef"}, doi \in ClientAdapterDois :
          \E env \in AdapterEnvs(adapter) :
             /\ call' = [f |-> adapter, doi |-> doi, env |-> env]
             /\ ret' = CallAdapter(adapter, doi, None, None, env)
    /\ UNCHANGED <<driver, entries, i, pc, now, cache, failed_log, run, logger, loc,
                   fc, trace, output>>

ClientNext ==
    \/ Tick
    \/ ClientCacheBibtex
    \/ ClientGetCachedBibtex
    \/ ClientVerifyDoiExists
    \/ ClientFetch

ClientSpec == ClientInit /\ [][ClientNext]_vars

(***************************************************************************)
(* What the history of an entry shows.                                     *)
(***************************************************************************)
IsAdapterEv(e) == e.op = "adapter"

IsValidateEv(e) == e.op = "validate"

IsLogEv(e) == e.op = "log"

\* the calls of source adapters made for the current entry, in order
AdapterCalls == SelectSeq(trace, IsAdapterEv)

Last(s) == s[Len(s)]

\* p occurs in s as a substring
Occurs(s, p) == \E k \in 1..(Len(s) - Len(p) + 1) : Sub(s, k, k + Len(p) - 1) = p

\* the order of the adapters for a publisher and a title
ExpectedAdapters(publisher, title) ==
    (IF publisher \in {"IEEE", "ACM", "arXiv"} THEN <<publisher>> ELSE <<>>)
    \o (IF publisher = "IEEE" THEN <<"IEEE-Selenium">> ELSE <<>>)
    \o <<"CrossRef">>
    \o (IF Truthy(title) THEN <<"Scholar">> ELSE <<>>)

\* the cache files hold an entry for the DOI that is at most 30 days old at time t
FreshInCache(files, t, doi) ==
    /\ get_cache_path(doi) \in DOMAIN files
    /\ t - files[get_cache_path(doi)].timestamp <= 30

FcAdapterStages == {"fc_publisher", "fc_selenium", "fc_crossref", "fc_scholar"}

\* the status the corrections table gives a DOI
TableStatus(doi) ==
    IF doi \in DOMAIN DoiCorrections THEN DoiCorrections[doi].status ELSE "absent"

(***************************************************************************)
(* The claims.                                                             *)
(***************************************************************************)
\* C1: in fetch_complete_bibtex the adapters are called in the order publisher
\* adapter (IEEE, ACM or arXiv), IEEE-Selenium (IEEE only), CrossRef, Google
\* Scholar (only with a title): the calls made are a prefix of that order, every
\* call but the last one made failed, they are made only after the cache lookup
\* missed, and the fetch returns a failure only after the whole order has failed.
C1_AdapterOrder ==
    LET a == AdapterCalls
        order == ExpectedAdapters(fc.publisher, fc.title)
    IN  /\ Len(a) <= Len(order)
        /\ \A k \in 1..Len(a) : a[k].name = order[k] /\ (k < Len(a) => ~a[k].ok)
        /\ a # <<>> => ~FreshInCache(fc.cache0, now, fc.doi)
        /\ pc = "fc_return" /\ ~Truthy(fc.result[1])
              => Len(a) = Len(order) /\ ~Last(a).ok

\* C1, its case: the IEEE scraper, the Selenium fallback and CrossRef failed in
\* turn and Google Scholar returned the text
C1_Witness ==
    /\ pc = "fc_return"
    /\ Len(AdapterCalls) = 4
    /\ AdapterCalls[1].name = "IEEE" /\ AdapterCalls[4].name = "Scholar"
    /\ AdapterCalls[4].ok
    /\ Truthy(fc.result[1])

C3_MergedOnlyAfterValidation ==
    \A k \in 1..Len(trace) :
       trace[k].op = "merge" =>
          \E j \in 1..(k - 1) :
             /\ trace[j].op = "validate"
             /\ trace[j].ok
             /\ trace[j].name = trace[k].name

\* C4: when the cache holds an entry for the requested DOI that is at most 30
\* days old when fetch_complete_bibtex is called, the fetch calls no adapter,
\* returns the cached text and leaves the cache as it is.
C4_CacheFirst ==
    pc \in FcAdapterStages \cup {"fc_return"}
       /\ FreshInCache(fc.cache0, now, fc.doi)
    => /\ pc = "fc_return"
       /\ AdapterCalls = <<>>
       /\ fc.result = <<fc.cache0[get_cache_path(fc.doi)].bibtex, None>>
       /\ cache = fc.cache0

\* C4, its case: the fetch has returned the text cached exactly 30 days ago
C4_Witness ==
    /\ pc = "fc_return"
    /\ FreshInCache(fc.cache0, now, fc.doi)
    /\ now - fc.cache0[get_cache_path(fc.doi)].timestamp = 30
    /\ fc.result[1] = T_FULL

LastWriteIndex(doi) ==
    LET ks == {k \in 1..Len(trace) : trace[k].doi = doi}
    IN  IF ks = {} THEN 0 ELSE CHOOSE k \in ks : \A j \in ks : j <= k

\* C6: after cache_bibtex(d, t), a get_cached_bibtex(d) made less than 30 days
\* after that write returns exactly t, and one made more than 30 days after it
\* returns None.
C6_CacheRoundTrip ==
    driver = "client" /\ call.f = "get_cached_bibtex"
       /\ LastWriteIndex(call.doi) # 0
    => LET written == trace[LastWriteIndex(call.doi)]
       IN  /\ call.at - written.at < 30 => ret = written.bibtex
           /\ call.at - written.at > 30 => ret = None

\* C7: in complete_bibtex_file run non-interactively, for a DOI the corrections
\* table marks invalid or pending, apply_doi_correction returns (None, True,
\* reason) and the entry is added to failed_entries with no identifier
\* validation, cache lookup or adapter call made for it; for a DOI that is not in
\* the table apply_doi_correction returns (doi, False, "").
C7_KnownInvalidSkipped ==
    driver = "complete_bibtex_file" /\ Truthy(loc.original_doi) =>
    LET c == apply_doi_correction(loc.original_doi)
    IN  /\ TableStatus(loc.original_doi) \in {"invalid", "pending"} =>
              /\ c[1] = None /\ c[2] = TRUE /\ c[3] # ""
              /\ pc # "correct" =>
                    /\ loc.outcome = "known_invalid"
                    /\ trace = <<>>
                    /\ run.failed_entries # <<>>
                    /\ Last(run.failed_entries) = loc.entry_id
        /\ TableStatus(loc.original_doi) = "absent" =>
              c = <<loc.original_doi, FALSE, "">>

\* C7, its case: the entry with the pending DOI has been skipped
C7_Witness ==
    /\ driver = "complete_bibtex_file"
    /\ TableStatus(loc.original_doi) = "pending"
    /\ loc.outcome = "known_invalid"
    /\ Last(run.failed_entries) = loc.entry_id

\* C8: in complete_bibtex_file, when the corrections table gives the entry's DOI
\* a replacement r, the identifier validation, the cache lookups, the publisher
\* identification, the adapter calls that take a DOI, the cache write and the
\* failed-DOI log entries of that entry all carry r, never the original DOI.
C8_CorrectedDoiUsed ==
    driver = "complete_bibtex_file"
       /\ TableStatus(loc.original_doi) = "corrected"
       /\ Truthy(DoiCorrections[loc.original_doi].corrected_doi)
       /\ pc # "correct"
    => LET r == DoiCorrections[loc.original_doi].corrected_doi
       IN  /\ r # loc.original_doi
           /\ loc.doi = r
           /\ \A k \in 1..Len(trace) :
                 trace[k].op \in {"verify", "cache_get", "identify", "cache_put", "log"}
                    \/ (trace[k].op = "adapter" /\ trace[k].name # "Scholar")
                 => trace[k].doi = r
           /\ \A k \in 1..Len(failed_log) :
                 failed_log[k].entry_id = loc.entry_id => failed_log[k].doi = r
           /\ loc.publisher # None => loc.publisher = identify_publisher(r)

\* C8, its case: the entry with the corrected DOI went through the validation,
\* the cache lookup and adapter calls, and its failure was logged
C8_Witness ==
    /\ driver = "complete_bibtex_file"
    /\ TableStatus(loc.original_doi) = "corrected"
    /\ loc.outcome = "fetch_failed"
    /\ Len(AdapterCalls) >= 3
    /\ \E k \in 1..Len(failed_log) : failed_log[k].entry_id = loc.entry_id

C10_TypedFailureReasons ==
    driver = "client"
       /\ \/ call.f = "verify_doi_exists" /\ StartsWith(call.doi, "10.")
          \/ call.f = "CrossRef"
    => LET answer == IF call.f = "CrossRef" THEN Last(call.env[1])
                     ELSE Last(call.answers)
           reason == ret[2]
       IN  /\ answer.exc = "" /\ answer.status_code = 404 => Contains(reason, "404")
           /\ answer.exc = "" /\ answer.status_code = 403 => Contains(reason, "403")
           /\ Contains(reason, "network error") => answer.exc # ""

MaxCandidates == 2

\* the three entries of the merger's self-test, and two with blank fields
M_IEEE ==
    [ID |-> "test2023", ENTRYTYPE |-> "article",
     author |-> "Smith, John and Doe, Jane", title |-> "A Test Paper",
     year |-> "2023", journal |-> "IEEE Trans. on Testing", _source |-> "ieee"]

M_CROSSREF ==
    [ID |-> "different_id", ENTRYTYPE |-> "article",
     author |-> "Smith, John and Doe, Jane and Brown, Bob",
     title |-> "A Test Paper", year |-> "2023",
     journal |-> "IEEE Transactions on Testing", volume |-> "10", number |-> "2",
     pages |-> "100-110", doi |-> "10.1109/test.2023.123456",
     _source |-> "crossref"]

M_DBLP ==
    [ID |-> "another_id", ENTRYTYPE |-> "article",
     author |-> "John Smith and Jane Doe and Bob Brown",
     title |-> "A Test Paper on Important Topics", year |-> "2023",
     journal |-> "IEEE Trans. Test.", volume |-> "10", pages |-> "100--110",
     abstract |-> "This is a test abstract with more details...",
     _source |-> "dblp"]

M_BLANK ==
    [ID |-> "blank2023", ENTRYTYPE |-> "misc", title |-> "", author |-> "   ",
     year |-> "2023", note |-> "{ to   appear }"]

M_NO_ID == [title |-> "A Test Paper", journal |-> " ", pages |-> "100"]

MergeSamples == {M_IEEE, M_CROSSREF, M_DBLP, M_BLANK, M_NO_ID}

CandidateLists ==
    UNION {[1..n -> MergeSamples] : n \in 1..MaxCandidates}

SourcePriorities ==
    {<<>>, <<"ieee", "dblp", "crossref">>, <<"doi_official", "dblp", "crossref">>}

\* the calls the client can make
MergeCalls ==
    {[f |-> "merge_entries", entries |-> candidates, original_id |-> "test2023",
      source_priority |-> source_priority] :
        candidates \in CandidateLists, source_priority \in SourcePriorities}
    \cup {[f |-> "merge_bibtex_entries", original |-> original,
           fetched |-> fetched, preserve_original |-> preserve_original] :
             original \in MergeSamples, fetched \in MergeSamples,
             preserve_original \in BOOLEAN}

MergerInit ==
    /\ driver = "client"
    /\ entries = <<>>
    /\ i = 1
    /\ pc = "client_merge"
    /\ now = 0
    /\ cache = [path \in {} |-> None]
    /\ failed_log = <<>>
    /\ run = NewRun
    /\ logger = NewChangeLogger
    /\ loc = NoLocals
    /\ fc = NoFrame
    /\ trace = <<>>
    /\ output = <<>>
    /\ call \in MergeCalls
    /\ ret = None

\* merge_entries(entries, original_id, source_priority)
ClientMergeEntries ==
    /\ pc = "client_merge"
    /\ call.f = "merge_entries"
    /\ ret' = merge_entries(call.entries, call.original_id, call.source_priority)
    /\ pc' = "client_done"
    /\ UNCHANGED <<driver, entries, i, now, cache, failed_log, run, logger, loc,
                   fc, trace, output, call>>

\* merge_bibtex_entries(original, fetched, preserve_original)
ClientMergeBibtexEntries ==
    /\ pc = "client_merge"
    /\ call.f = "merge_bibtex_entries"
    /\ ret' = merge_bibtex_entries(call.original, call.fetched,
                                   call.preserve_original)
    /\ pc' = "client_done"
    /\ UNCHANGED <<driver, entries, i, now, cache, failed_log, run, logger, loc,
                   fc, trace, output, call>>

MergerNext == ClientMergeEntries \/ ClientMergeBibtexEntries

MergerSpec == MergerInit /\ [][MergerNext]_vars

(***************************************************************************)
(* A client that makes up to MaxLogCalls calls of the ChangeLogger's log_* *)
(* methods on a new ChangeLogger (pc = "client_logger").  trace is the     *)
(* history of the calls.                                                   *)
(***************************************************************************)
MaxLogCalls == 3

LoggerEntryIds == {"smith2020", "lee2021"}

LoggerInit ==
    /\ driver = "client"
    /\ entries = <<>>
    /\ i = 1
    /\ pc = "client_logger"
    /\ now = 0
    /\ cache = [path \in {} |-> None]
    /\ failed_log = <<>>
    /\ run = NewRun
    /\ logger = NewChangeLogger
    /\ loc = NoLocals
    /\ fc = NoFrame
    /\ trace = <<>>
    /\ output = <<>>
    /\ call = NoCall
    /\ ret = None

\* the frame of a call of a log_* method
LoggerCall(f, entry_id) ==
    /\ pc = "client_logger"
    /\ Len(trace) < MaxLogCalls
    /\ call' = [f |-> f, entry_id |-> entry_id]
    /\ trace' = Append(trace, call')
    /\ UNCHANGED <<driver, entries, i, pc, now, cache, failed_log, run, loc, fc,
                   output, ret>>

ClientLogEntryProcessed ==
    \E entry_id \in LoggerEntryIds :
       /\ LoggerCall("log_entry_processed", entry_id)
       /\ logger' = log_entry_processed(logger, entry_id)

ClientLogFieldAdded ==
    \E entry_id \in LoggerEntryIds :
       /\ LoggerCall("log_field_added", entry_id)
       /\ logger' = log_field_added(logger, entry_id, "volume", "87", "IEEE")

ClientLogFieldUpdated ==
    \E entry_id \in LoggerEntryIds :
       /\ LoggerCall("log_field_updated", entry_id)
       /\ logger' = log_field_updated(logger, entry_id, "pages", "100-110",
                                      "100--110", "page_format")

ClientLogArxivReplacement ==
    \E entry_id \in LoggerEntryIds :
       /\ LoggerCall("log_arxiv_replacement", entry_id)
       /\ logger' = log_arxiv_replacement(logger, entry_id, "2410.03805",
                                          "10.1109/5.771073", "published_version")

ClientLogTitleFormatted ==
    \E entry_id \in LoggerEntryIds :
       /\ LoggerCall("log_title_formatted", entry_id)
       /\ logger' = log_title_formatted(logger, entry_id, "deep learning",
                                        "Deep Learning", "titlecase")

ClientLogJournalNormalized ==
    \E entry_id \in LoggerEntryIds :
       /\ LoggerCall("log_journal_normalized", entry_id)
       /\ logger' = log_journal_normalized(logger, entry_id,
                                           "Proceedings of the IEEE", "Proc. IEEE",
                                           "abbreviation")

ClientLogError ==
    \E entry_id \in LoggerEntryIds :
       /\ LoggerCall("log_error", entry_id)
       /\ logger' = log_error(logger, entry_id, "Failed to parse fetched BibTeX")

LoggerNext ==
    \/ ClientLogEntryProcessed
    \/ ClientLogFieldAdded
    \/ ClientLogFieldUpdated
    \/ ClientLogArxivReplacement
    \/ ClientLogTitleFormatted
    \/ ClientLogJournalNormalized
    \/ ClientLogError

LoggerSpec == LoggerInit /\ [][LoggerNext]_vars

(***************************************************************************)
(* Two threads that call log_failed_doi on the same log file               *)
(* (pc = "client_log").  A call is two steps, as the code has no lock      *)
(* between them: load_failed_dois reads the file into failed_dois, then    *)
(* the list with the new entry appended is written back.  call[t] is the   *)
(* frame of thread t; overlapped is history: the call was in progress      *)
(* while a call of the other thread was.  trace is the history of the      *)
(* calls that returned, run.log0 the log file before the first call.       *)
(***************************************************************************)
MaxFailedLogCalls == 3

LogThreads == {1, 2}

IdleFrame == [pc |-> "idle", overlapped |-> FALSE]

\* an entry that an earlier run logged
EARLIER_FAILURE ==
    [doi |-> "10.1109/OLD.2022.1", entry_id |-> "prev2022", publisher |-> "IEEE",
     error_message |-> "DOI not found", http_status |-> None, timestamp |-> 0]

LogInit ==
    /\ driver = "client"
    /\ entries = <<>>
    /\ i = 1
    /\ pc = "client_log"
    /\ now = ClockStep
    /\ cache = [path \in {} |-> None]
    /\ failed_log \in {<<>>, <<EARLIER_FAILURE>>}
    /\ run = [log0 |-> failed_log]
    /\ logger = NewChangeLogger
    /\ loc = NoLocals
    /\ fc = NoFrame
    /\ trace = <<>>
    /\ output = <<>>
    /\ call = [t \in LogThreads |-> IdleFrame]
    /\ ret = None

\* the calls started so far
LogCallsStarted ==
    Len(trace) + Cardinality({t \in LogThreads : call[t].pc # "idle"})

\* thread t calls log_failed_doi: init_failed_doi_log, failed_dois = load_failed_dois()
LogLoad(t) ==
    /\ pc = "client_log"
    /\ call[t].pc = "idle"
    /\ LogCallsStarted < MaxFailedLogCalls
    /\ \E entry \in {E_IEEE, E_ACM} :
          LET others == {u \in LogThreads \ {t} : call[u].pc # "idle"}
          IN  call' = [u \in LogThreads |->
                          IF u = t
                          THEN [pc |-> "loaded", overlapped |-> others # {},
                                doi |-> extract_doi(entry), entry_id |-> entry["ID"],
                                publisher |-> identify_publisher(extract_doi(entry)),
                                error_message |-> "DOI validation failed",
                                failed_dois |-> failed_log]
                          ELSE IF u \in others
                          THEN [call[u] EXCEPT !.overlapped = TRUE]
                          ELSE call[u]]
    /\ UNCHANGED <<driver, entries, i, pc, now, cache, failed_log, run, logger, loc,
                   fc, trace, output, ret>>

\* thread t appends its entry to failed_dois and writes the file; the call returns
LogWrite(t) ==
    /\ pc = "client_log"
    /\ call[t].pc = "loaded"
    /\ failed_log' = log_failed_doi(call[t].failed_dois, now, call[t].doi,
                                    call[t].entry_id, call[t].publisher,
                                    call[t].error_message)
    /\ trace' = Append(trace, [thread |-> t, doi |-> call[t].doi,
                               entry_id |-> call[t].entry_id,
                               overlapped |-> call[t].overlapped])
    /\ call' = [call EXCEPT ![t] = IdleFrame]
    /\ UNCHANGED <<driver, entries, i, pc, now, cache, run, logger, loc, fc,
                   output, ret>>

LogNext == \E t \in LogThreads : LogLoad(t) \/ LogWrite(t)

LogSpec == LogInit /\ [][LogNext]_vars

(***************************************************************************)
(* utils/arxiv_detector.py: the detection of arXiv entries.                *)
(***************************************************************************)
\* the group of r'arxiv\.org/(?:abs|pdf)/(\d{4}\.\d{4,5}(?:v\d+)?)', ignoring
\* case, matched at position pos, "" if none
ArxivIdUrlMatchAt(url, pos) ==
    LET p == "arxiv.org/"
        k == Lower(Sub(url, pos + Len(p), pos + Len(p) + 3))
        g == pos + Len(p) + 4
        n1 == RunLen(url, g, Digits)
        n2 == Min(RunLen(url, g + 5, Digits), 5)
        v == g + 5 + n2
        nv == IF Lower(Char(url, v)) = "v" THEN RunLen(url, v + 1, Digits) ELSE 0
    IN  IF Lower(Sub(url, pos, pos + Len(p) - 1)) = p /\ k \in {"abs/", "pdf/"}
           /\ n1 >= 4 /\ Char(url, g + 4) = "." /\ n2 >= 4
        THEN Sub(url, g, IF nv >= 1 THEN v + nv ELSE v - 1)
        ELSE ""

\* the group of r'10\.48550/arXiv\.(\d{4}\.\d{4,5})', ignoring case, at pos
ArxivIdDoiMatchAt(doi, pos) ==
    LET p == "10.48550/arxiv."
        g == pos + Len(p)
        n1 == RunLen(doi, g, Digits)
        n2 == Min(RunLen(doi, g + 5, Digits), 5)
    IN  IF Lower(Sub(doi, pos, pos + Len(p) - 1)) = p
           /\ n1 >= 4 /\ Char(doi, g + 4) = "." /\ n2 >= 4
        THEN Sub(doi, g, g + 4 + n2)
        ELSE ""

extract_arxiv_id(entry) ==
    IF "eprint" \in DOMAIN entry /\ Strip(entry["eprint"]) # ""
    THEN Strip(entry["eprint"])
    ELSE IF "arxivid" \in DOMAIN entry /\ Strip(entry["arxivid"]) # ""
    THEN Strip(entry["arxivid"])
    ELSE IF "archiveprefix" \in DOMAIN entry
            /\ Contains(Lower(entry["archiveprefix"]), "arxiv")
            /\ "eprint" \in DOMAIN entry
    THEN Strip(entry["eprint"])
    ELSE IF "url" \in DOMAIN entry
            /\ SearchFrom(ArxivIdUrlMatchAt, entry["url"], 1) # ""
    THEN SearchFrom(ArxivIdUrlMatchAt, entry["url"], 1)
    ELSE IF "doi" \in DOMAIN entry
            /\ SearchFrom(ArxivIdDoiMatchAt, entry["doi"], 1) # ""
    THEN SearchFrom(ArxivIdDoiMatchAt, entry["doi"], 1)
    ELSE None

is_arxiv_entry(entry) ==
    IF Lower(Get(entry, "ENTRYTYPE", "")) = "misc"
    THEN extract_arxiv_id(entry) # None
    ELSE \/ /\ "archiveprefix" \in DOMAIN entry
            /\ Contains(Lower(entry["archiveprefix"]), "arxiv")
         \/ Contains(Lower(Get(entry, "journal", "")), "arxiv")
         \/ Contains(Lower(Get(entry, "publisher", "")), "arxiv")

\* find_published_version(entry, delay); found is what the searches of Semantic
\* Scholar, DBLP and CrossRef and the download of the BibTeX come to
find_published_version(entry, found) ==
    IF ~is_arxiv_entry(entry) THEN <<None, None>>
    ELSE IF Strip(Get(entry, "title", "")) = "" THEN <<None, None>>
    ELSE found

\* one method of find_published_version: the search of a source, whose result is
\* a DOI or None, and fetch_bibtex_from_doi for the DOI found; the record of the
\* query, with the text the download returned (None when there was no download)
QueryOf(source, web) ==
    [source |-> source, doi |-> web[source],
     bibtex |-> IF Truthy(web[source]) THEN web.bibtex[web[source]] ELSE None]

\* the methods find_published_version tries, in its order: Semantic Scholar when
\* the entry has an arXiv identifier, then DBLP, then CrossRef by title
MethodsOf(entry) ==
    (IF Truthy(extract_arxiv_id(entry)) THEN <<"semantic_scholar">> ELSE <<>>)
    \o <<"dblp", "crossref">>

\* the methods tried one after the other, until one returns
RECURSIVE TryMethods(_, _, _)
TryMethods(sources, web, queried) ==
    IF sources = <<>> THEN [result |-> <<None, None>>, queried |-> queried]
    ELSE LET q == QueryOf(Head(sources), web)
         IN  IF Truthy(q.doi) /\ Truthy(q.bibtex)
             THEN [result |-> <<q.doi, q.bibtex>>, queried |-> Append(queried, q)]
             ELSE TryMethods(Tail(sources), web, Append(queried, q))

\* the methods tried one after the other, the first DOI found ending the search
RECURSIVE TryMethodsUntilDoi(_, _, _)
TryMethodsUntilDoi(sources, web, queried) ==
    IF sources = <<>> THEN [result |-> <<None, None>>, queried |-> queried]
    ELSE LET q == QueryOf(Head(sources), web)
         IN  IF Truthy(q.doi)
             THEN [result |-> IF Truthy(q.bibtex) THEN <<q.doi, q.bibtex>>
                              ELSE <<None, None>>,
                   queried |-> Append(queried, q)]
             ELSE TryMethodsUntilDoi(Tail(sources), web, Append(queried, q))

\* a search that ends at the first source that names a DOI
find_published_version_until_doi(entry, web) ==
    IF ~is_arxiv_entry(entry) THEN [result |-> <<None, None>>, queried |-> <<>>]
    ELSE IF Strip(Get(entry, "title", "")) = ""
    THEN [result |-> <<None, None>>, queried |-> <<>>]
    ELSE TryMethodsUntilDoi(MethodsOf(entry), web, <<>>)

\* find_published_version(entry, delay) with the sources it asks: web holds what
\* the three searches answer and what the download of each DOI returns; the
\* value is [result, queried], queried the queries in the order they were made
find_published_version_queries(entry, web) ==
    IF ~is_arxiv_entry(entry) THEN [result |-> <<None, None>>, queried |-> <<>>]
    ELSE IF Strip(Get(entry, "title", "")) = ""
    THEN [result |-> <<None, None>>, queried |-> <<>>]
    ELSE TryMethods(MethodsOf(entry), web, <<>>)

(***************************************************************************)
(* scripts/enhanced_complete.py.  enhanced_complete_bibtex completes the   *)
(* entries one after the other, or, when the configuration asks for        *)
(* parallel processing of a file of more than ten entries, in the worker   *)
(* threads of process_entries_parallel; the model shows MaxEntries of the  *)
(* entries of such a file.  run holds the locals of the driver: the        *)
(* configuration, processed (processed_entries), and for the parallel mode *)
(* the futures and completed, the order in which as_completed yields them. *)
(***************************************************************************)
DefaultConfig ==
    [arxiv_handling |-> "replace_with_published", merge_multiple_sources |-> TRUE,
     parallel_processing |-> FALSE]

Configs ==
    {[DefaultConfig EXCEPT !.merge_multiple_sources = m, !.parallel_processing = p] :
        m \in BOOLEAN, p \in BOOLEAN}

\* config.get('data_source_priority', ...)
DefaultSourcePriority == <<"doi_official", "dblp", "crossref">>

E_BLANK ==
    [ID |-> "blank2023", ENTRYTYPE |-> "article", title |-> "", author |-> "   ",
     year |-> "2021", doi |-> "10.1109/5.771073"]

EnhancedSamples == <<E_IEEE, E_BLANK, E_NODOI, E_PREPRINT, E_ACM>>

EnhancedFiles ==
    {[k \in 1..MaxEntries |->
         EnhancedSamples[((start + k - 2) % Len(EnhancedSamples)) + 1]] :
     start \in 1..Len(EnhancedSamples)}

\* what find_published_version can find
PublishedVersions ==
    {<<None, None>>, <<"10.1109/5.771073", T_FULL>>, <<"10.1109/5.771073", T_GARBAGE>>}

\* what a call fetch_bibtex_from_x(doi, delay) does.  The adapters are imported
\* from awesome_citations.scripts.complete_bibtex: those of scripts/complete_bibtex
\* take one argument, so the call raises TypeError ("raises"); an adapter that
\* takes the delay returns a pair, which bibtexparser.loads cannot read ("pair"),
\* or the text or None ("text")
AdapterApis == {"raises", "pair", "text"}

FetchEnvs ==
    {[api |-> "raises", official |-> None, crossref |-> None],
     [api |-> "pair", official |-> None, crossref |-> None],
     [api |-> "text", official |-> None, crossref |-> None],
     [api |-> "text", official |-> None, crossref |-> T_GARBAGE],
     [api |-> "text", official |-> T_FULL, crossref |-> None],
     [api |-> "text", official |-> T_FULL, crossref |-> T_OTHER]}

\* the entry one source adds to results, <<>> when it adds none
SourceResult(bibtex_str, source) ==
    IF Truthy(bibtex_str) /\ ~IsNoEntry(parse_bibtex_string(bibtex_str))
    THEN <<Put(parse_bibtex_string(bibtex_str), "_source", source)>>
    ELSE <<>>

\* fetch_from_multiple_sources(entry, config): [raised, results]
fetch_from_multiple_sources(entry, env) ==
    LET doi == extract_doi(entry)
        publisher == identify_publisher(doi)
        official == CASE publisher = "IEEE" -> SourceResult(env.official, "ieee")
                      [] publisher = "ACM" -> SourceResult(env.official, "acm")
                      [] publisher = "arXiv" -> SourceResult(env.official, "arxiv")
                      [] OTHER -> <<>>
    IN  IF ~Truthy(doi) THEN [raised |-> FALSE, results |-> <<>>]
        ELSE IF env.api = "raises" THEN [raised |-> TRUE, results |-> <<>>]
        ELSE IF env.api = "pair" THEN [raised |-> FALSE, results |-> <<>>]
        ELSE [raised |-> FALSE,
              results |-> official \o SourceResult(env.crossref, "crossref")]

\* the loop that logs the fields of the merged entry that the original lacks;
\* the fields are taken in an arbitrary fixed order, an entry of the model
\* having no key order
RECURSIVE LogNewFields(_, _, _, _)
LogNewFields(lg, entry_id, fields, entry) ==
    IF fields = {} THEN lg
    ELSE LET field == CHOOSE f \in fields : TRUE
         IN  TheOne({LogNewFields(next, entry_id, fields \ {field}, entry) :
                        next \in {log_field_added(lg, entry_id, field,
                                                  entry[field], "multi_source")}})

\* step 1 of process_single_entry: an arXiv entry is replaced by its published
\* version, under the original ID; [entry, logger]
ReplaceWithPublished(entry, config, lg, found) ==
    LET entry_id == Get(entry, "ID", "unknown")
        replace == config.arxiv_handling = "replace_with_published"
                   /\ is_arxiv_entry(entry)
    IN  TheOne({
            IF replace /\ Truthy(pv[1]) /\ Truthy(pv[2])
               /\ ~IsNoEntry(parse_bibtex_string(pv[2]))
            THEN [entry |-> Put(parse_bibtex_string(pv[2]), "ID", entry_id),
                  logger |-> log_arxiv_replacement(
                                 lg, entry_id,
                                 Get(parse_bibtex_string(pv[2]), "eprint", "unknown"),
                                 pv[1], "published_version")]
            ELSE [entry |-> entry, logger |-> lg] :
            pv \in {find_published_version(entry, found)}})

\* step 4 of workflow_complete_bibtex for the entry at position k: the published
\* version of an arXiv entry is merged into the entry, a field_added record is
\* logged for each of six fields the merged entry holds, and then the
\* replacement; [entry, logger]
WfReplaceArxiv(entry, k, config, lg, found) ==
    LET entry_id == Get(entry, "ID", "entry_" \o ToString(k))
        arxiv_id == extract_arxiv_id(entry)
        replace == config.arxiv_handling = "replace_with_published"
                   /\ is_arxiv_entry(entry)
    IN  TheOne({
            IF replace /\ Truthy(pv[1]) /\ Truthy(pv[2])
               /\ ~IsNoEntry(parse_bibtex_string(pv[2]))
            THEN LET merged_entry ==
                         merge_bibtex_entries(entry, parse_bibtex_string(pv[2]), TRUE)
                 IN  [entry |-> merged_entry,
                      logger |-> log_arxiv_replacement(
                                     LogAddedFields(lg, entry_id,
                                                    <<"author", "journal", "booktitle",
                                                      "volume", "number", "pages">>,
                                                    merged_entry, "published_version"),
                                     entry_id, arxiv_id, pv[1], "published_version")]
            ELSE [entry |-> entry, logger |-> lg] :
            pv \in {find_published_version(entry, found)}})

\* step 2 of process_single_entry after the fetch: the merge with the original
\* entry first, and the log of the added fields
MergeFetched(original_entry, s1, fetched_entries) ==
    LET entry_id == Get(original_entry, "ID", "unknown")
    IN  TheOne({
            [raised |-> FALSE, entry |-> merged,
             logger |-> LogNewFields(s1.logger, entry_id,
                                     {f \in DOMAIN merged :
                                         /\ f \notin DOMAIN original_entry
                                         /\ ~StartsWith(f, "_")
                                         /\ f \notin {"ID", "ENTRYTYPE"}},
                                     merged)] :
            merged \in {merge_entries(<<s1.entry>> \o fetched_entries, entry_id,
                                      DefaultSourcePriority)}})

\* process_single_entry(entry, config, logger): [raised, entry, logger], where
\* raised says that an exception left the function, entry is the return value
\* (the original entry when raised) and logger the ChangeLogger after the calls
\* the function made
process_single_entry(entry, config, lg, found, env) ==
    TheOne({
        IF fetched.raised
        THEN [raised |-> TRUE, entry |-> entry, logger |-> s1.logger]
        ELSE IF fetched.results = <<>>
        THEN [raised |-> FALSE, entry |-> s1.entry, logger |-> s1.logger]
        ELSE MergeFetched(entry, s1, fetched.results) :
        s1 \in {ReplaceWithPublished(entry, config, lg, found)},
        fetched \in {IF config.merge_multiple_sources
                     THEN fetch_from_multiple_sources(
                              ReplaceWithPublished(entry, config, lg, found).entry,
                              env)
                     ELSE [raised |-> FALSE, results |-> <<>>]}})

NewEnhancedRun(config) ==
    [config |-> config, processed |-> <<>>, futures |-> <<>>, completed |-> <<>>]

EnhancedInit ==
    /\ driver = "enhanced_complete_bibtex"
    /\ entries \in EnhancedFiles
    /\ i = 1
    /\ pc = "step1"
    /\ now = MaxClock
    /\ cache = [path \in {} |-> None]
    /\ failed_log = <<>>
    /\ \E config \in Configs : run = NewEnhancedRun(config)
    /\ logger = NewChangeLogger
    /\ loc = NoLocals
    /\ fc = NoFrame
    /\ trace = <<>>
    /\ output = <<>>
    /\ call = NoCall
    /\ ret = None

\* step 1: the choice between process_entries_parallel and the loop
EcStep1 ==
    /\ driver = "enhanced_complete_bibtex"
    /\ pc = "step1"
    /\ IF run.config.parallel_processing
       THEN /\ run' = [run EXCEPT !.futures =
                          [k \in 1..Len(entries) |-> [state |-> "running"]]]
            /\ pc' = "as_completed"
       ELSE /\ pc' = "loop"
            /\ UNCHANGED run
    /\ UNCHANGED <<driver, entries, i, now, cache, failed_log, logger, loc, fc,
                   trace, output, call, ret>>

\* the sequential loop: log_entry_processed, process_single_entry under try,
\* the sleep; after the last entry bib_database.entries = processed_entries
EcLoop ==
    /\ driver = "enhanced_complete_bibtex"
    /\ pc = "loop"
    /\ IF i > Len(entries)
       THEN /\ entries' = run.processed
            /\ pc' = "write"
            /\ UNCHANGED <<i, run, logger, loc>>
       ELSE \E found \in PublishedVersions, env \in FetchEnvs :
               LET entry == entries[i]
                   entry_id == Get(entry, "ID", "entry_" \o ToString(i))
               IN  \E r \in {process_single_entry(
                                 entry, run.config,
                                 log_entry_processed(logger, entry_id), found, env)} :
                   /\ IF r.raised
                      THEN /\ run' = [run EXCEPT !.processed = Append(@, entry)]
                           /\ logger' = log_error(r.logger, entry_id, "TypeError")
                      ELSE /\ run' = [run EXCEPT !.processed = Append(@, r.entry)]
                           /\ logger' = r.logger
                   /\ loc' = [NoLocals EXCEPT !.entry_id = entry_id,
                                              !.original_entry = entry,
                                              !.outcome = IF r.raised THEN "raised"
                                                          ELSE "processed"]
                   /\ i' = i + 1
                   /\ pc' = "loop"
                   /\ UNCHANGED entries
    /\ UNCHANGED <<driver, now, cache, failed_log, fc, trace, output, call, ret>>

\* a worker thread runs process_single_entry for the entry of future k
EcWorker(k) ==
    /\ driver = "enhanced_complete_bibtex"
    /\ pc = "as_completed"
    /\ k \in 1..Len(run.futures)
    /\ run.futures[k].state = "running"
    /\ \E found \in PublishedVersions, env \in FetchEnvs :
          \E r \in {process_single_entry(entries[k], run.config, logger, found,
                                          env)} :
              /\ run' = [run EXCEPT
                            !.futures[k] = [state |-> "done", raised |-> r.raised,
                                            result |-> r.entry],
                            !.completed = Append(@, k)]
              /\ logger' = r.logger
    /\ UNCHANGED <<driver, entries, i, pc, now, cache, failed_log, loc, fc, trace,
                   output, call, ret>>

\* the body of the loop over as_completed for the next future that completed,
\* and the return of processed after the last
EcCollect ==
    /\ driver = "enhanced_complete_bibtex"
    /\ pc = "as_completed"
    /\ IF i > Len(entries)
       THEN /\ entries' = run.processed
            /\ pc' = "write"
            /\ UNCHANGED <<i, run, logger, loc>>
       ELSE /\ i <= Len(run.completed)
            /\ LET k == run.completed[i]
                   future == run.futures[k]
                   original == entries[k]
                   entry_id == Get(original, "ID", "unknown")
               IN  /\ IF future.raised
                      THEN /\ run' = [run EXCEPT !.processed = Append(@, original)]
                           /\ logger' = log_error(logger, entry_id, "TypeError")
                      ELSE /\ run' = [run EXCEPT
                                         !.processed = Append(@, future.result)]
                           /\ logger' = logger
                   /\ loc' = [NoLocals EXCEPT !.entry_id = entry_id,
                                              !.original_entry = original,
                                              !.outcome = IF future.raised
                                                          THEN "raised"
                                                          ELSE "processed"]
            /\ i' = i + 1
            /\ UNCHANGED <<entries, pc>>
    /\ UNCHANGED <<driver, now, cache, failed_log, fc, trace, output, call, ret>>

\* step 3: the output file is written (step 2, the formatting of each entry under
\* try, is not modelled: output is the entries as step 1 leaves them)
EcWrite ==
    /\ driver = "enhanced_complete_bibtex"
    /\ pc = "write"
    /\ output' = entries
    /\ pc' = "done"
    /\ UNCHANGED <<driver, entries, i, now, cache, failed_log, run, logger, loc, fc,
                   trace, call, ret>>

EnhancedNext ==
    \/ EcStep1
    \/ EcLoop
    \/ \E k \in 1..MaxEntries : EcWorker(k)
    \/ EcCollect
    \/ EcWrite

EnhancedSpec == EnhancedInit /\ [][EnhancedNext]_vars

(***************************************************************************)
(* The three drivers together: a run of any of them.                       *)
(***************************************************************************)
DriversInit == Init \/ EnhancedInit

DriversNext == Next \/ EnhancedNext

DriversSpec == DriversInit /\ [][DriversNext]_vars

(***************************************************************************)
(* A client that calls one of the pure functions once, as the unit tests   *)
(* do (pc = "client_unit"): call is the call, ret what it returned.        *)
(***************************************************************************)
\* an entry with the given title, year and doi, None for a field it lacks
MakeEntry(title, year, doi) ==
    [f \in (IF title = None THEN {} ELSE {"title"})
           \cup (IF year = None THEN {} ELSE {"year"})
           \cup (IF doi = None THEN {} ELSE {"doi"}) |->
        CASE f = "title" -> title
          [] f = "year" -> year
          [] f = "doi" -> doi]

ValidatorTitles ==
    {None, "", "   ", "!!!", "Deep Learning for Vision",
     "Deep Learning for Vision Applications", "Quantum Computing Survey",
     "Deep Learning: A Survey of Quantum Vision",
     "deep vision transformers FOR robots"}

ValidatorYears ==
    {None, "", "2021", "2022", "2023", " 2020 ", "n.d.", "2021.0", "2_023"}

ValidatorDois ==
    {None, "", "10.1109/5.771073", "https://doi.org/10.1109/5.771073",
     "HTTP://DX.DOI.ORG/10.1109/5.771073", "10.1145/3456789",
     "10.1109/TEST.2023.123", "10.1109/test.2023.123"}

\* the pairs of entries the validator is called with: two entries that differ
\* in one field, and entries that differ in all three
ValidatorPairs ==
    {<<MakeEntry(t1, None, None), MakeEntry(t2, None, None)>> :
        t1 \in ValidatorTitles, t2 \in ValidatorTitles}
    \cup {<<MakeEntry("Test Paper", y1, None), MakeEntry("Test Paper", y2, None)>> :
            y1 \in ValidatorYears, y2 \in ValidatorYears}
    \cup {<<MakeEntry("Test Paper", "2023", d1), MakeEntry("Test Paper", "2023", d2)>> :
            d1 \in ValidatorDois, d2 \in ValidatorDois}
    \cup {<<MakeEntry("Deep Learning for Vision", "2021", "10.1109/5.771073"),
            MakeEntry(t, y, d)>> :
            t \in {"Deep Learning for Vision", "Quantum Computing Survey"},
            y \in {"2021", "2023"}, d \in {"10.1109/5.771073", "10.1145/3456789"}}

\* s repeated n times
RECURSIVE Repeat(_, _)
Repeat(s, n) == IF n = 0 THEN "" ELSE s \o Repeat(s, n - 1)

WeightedFields == {FIELD_WEIGHTS[k][1] : k \in 1..Len(FIELD_WEIGHTS)}

\* values of 1, 4, 99, 100 and 120 characters once stripped
ScoreValues ==
    {"x", " 2023 ", Repeat("abcdefghi ", 10), Repeat("abcdefghij", 10),
     Repeat("abcdefghij", 12)}

\* records to score: empty, without a weighted field, with blank fields, and
\* with a long value in every weighted field but one
ScoreRecords ==
    {[f \in {} |-> ""],
     [ID |-> "smith2020", ENTRYTYPE |-> "article"],
     [ID |-> "smith2020", title |-> "Deep Learning", author |-> "   ", year |-> ""]}
    \cup {[f \in WeightedFields \ {g} |-> Repeat("abcdefghij", 12)] :
            g \in {"author", "note", "pages"}}

\* the weighted fields that are absent or blank in the record
BlankWeightedFields(record) ==
    {f \in WeightedFields : f \notin DOMAIN record \/ Strip(record[f]) = ""}

ScoreCalls ==
    {[f |-> "calculate_completeness_score", entry |-> c[1], field |-> c[2],
      value |-> c[3]] :
        c \in {c \in ScoreRecords \X WeightedFields \X ScoreValues :
                  c[2] \in BlankWeightedFields(c[1])}}

MaxPages == 3

\* pages values: blank, bare, with a hyphen, a double hyphen and an en dash
PagesValues ==
    {"", "  ", "100", "100-110", "100--110", "100" \o EN_DASH \o "110", "12345678"}

PagesCalls ==
    {[f |-> "merge_pages_field", pages_list |-> pages_list] :
        pages_list \in UNION {[1..n -> PagesValues] : n \in 0..MaxPages}}

\* well-formed DOIs: those of the unit tests, and DOIs of other registrants
PublisherDois ==
    {"10.1109/TPAMI.2023.1234567", "10.1145/3456789.0123456",
     "10.1007/s10994-023-6789-0", "10.1016/j.cell.2023.01.001",
     "10.48550/arXiv.1706.03762", "10.9999/unknown.2023.123", "10.1000/182",
     "10.11099/abc.2023.1", "10.10160/x", "10.4855/arXiv.1"}

PublisherCalls == {[f |-> "identify_publisher", doi |-> doi] : doi \in PublisherDois}

\* doi fields: absent, empty, blank, bare, padded, and with the URL prefixes
ExtractDois ==
    {None, "", "   ", "10.1109/TPAMI.2023.1234567", "  10.1109/TPAMI.2023.1234567  ",
     "https://doi.org/10.1145/3456789", "https://dx.doi.org/10.1016/j.cell.2023.01.001",
     "http://dx.doi.org/10.1145/3456789", "doi.org/10.1145/3456789"}

\* url fields: absent, empty, a doi.org URL, arXiv abs and pdf URLs with a new
\* and an old identifier, and a URL without an identifier
ExtractUrls ==
    {None, "", "https://doi.org/10.1109/CVPR.2023.00123",
     "https://arxiv.org/abs/2410.03805", "http://arxiv.org/pdf/1706.03762v5",
     "https://arxiv.org/abs/cs/0704001", "https://example.org/paper.pdf"}

ExtractEntries ==
    {[f \in (IF d = None THEN {} ELSE {"doi"})
            \cup (IF u = None THEN {} ELSE {"url"}) \cup {"title"} |->
        CASE f = "doi" -> d
          [] f = "url" -> u
          [] f = "title" -> "Some Paper"] : d \in ExtractDois, u \in ExtractUrls}

ExtractCalls == {[f |-> "extract_doi", entry |-> e] : e \in ExtractEntries}

MaxAnswers == 4

\* what the transport can answer to one attempt
AttemptAnswers ==
    {Ok("", T_FULL), Http(404), Raises("ProxyError"), Raises("SSLError"),
     Raises("Timeout")}

RequestCalls ==
    {[f |-> "safe_request", answers |-> answers] :
        answers \in [1..MaxAnswers -> AttemptAnswers]}

\* an entry that is_arxiv_entry accepts by its journal, without an identifier
E_ARXIV_JOURNAL ==
    [ID |-> "wu2022", ENTRYTYPE |-> "article", title |-> "Deep Learning for Vision",
     author |-> "Wu, Wei", journal |-> "arXiv preprint", pages |-> "1--12"]

\* an arXiv preprint without a title
E_PREPRINT_UNTITLED ==
    [ID |-> "anon2024", ENTRYTYPE |-> "misc", title |-> "  ", eprint |-> "2410.03805"]

ArxivEntries == {E_PREPRINT, E_ARXIV_JOURNAL, E_PREPRINT_UNTITLED, E_IEEE}

PublishedDois == {"10.1109/5.771073", "10.1000/qc.2020"}

\* what the searches answer and what fetch_bibtex_from_doi returns for each DOI
Webs ==
    {[semantic_scholar |-> s, dblp |-> d, crossref |-> c, bibtex |-> b] :
        s \in {None, "10.1109/5.771073"}, d \in PublishedDois \cup {None},
        c \in {None, "10.1000/qc.2020"},
        b \in [PublishedDois -> {None, "", T_FULL, T_GARBAGE}]}

ArxivCalls ==
    {[f |-> "find_published_version", entry |-> e, web |-> w, script |-> sc] :
        e \in ArxivEntries, w \in Webs, sc \in {"enhanced", "workflow"}}

UnitCalls ==
    {[f |-> "validate_fetched_bibtex", original_entry |-> pair[1],
      fetched_entry |-> pair[2]] : pair \in ValidatorPairs}
    \cup ScoreCalls
    \cup PagesCalls
    \cup PublisherCalls
    \cup ExtractCalls
    \cup RequestCalls
    \cup ArxivCalls

UnitInit ==
    /\ driver = "client"
    /\ entries = <<>>
    /\ i = 1
    /\ pc = "client_unit"
    /\ now = 0
    /\ cache = [path \in {} |-> None]
    /\ failed_log = <<>>
    /\ run = NewRun
    /\ logger = NewChangeLogger
    /\ loc = NoLocals
    /\ fc = NoFrame
    /\ trace = <<>>
    /\ output = <<>>
    /\ call \in UnitCalls
    /\ ret = None

\* validate_fetched_bibtex(original_entry, fetched_entry)
ClientValidate ==
    /\ pc = "client_unit"
    /\ call.f = "validate_fetched_bibtex"
    /\ ret' = validate_fetched_bibtex(call.original_entry, call.fetched_entry)
    /\ pc' = "client_done"
    /\ UNCHANGED <<driver, entries, i, now, cache, failed_log, run, logger, loc,
                   fc, trace, output, call>>

\* calculate_completeness_score(entry) and then the score of the entry with
\* one more field: ret is the pair of the two scores
ClientScore ==
    /\ pc = "client_unit"
    /\ call.f = "calculate_completeness_score"
    /\ ret' = <<calculate_completeness_score(call.entry),
                calculate_completeness_score(
                    Put(call.entry, call.field, call.value))>>
    /\ pc' = "client_done"
    /\ UNCHANGED <<driver, entries, i, now, cache, failed_log, run, logger, loc,
                   fc, trace, output, call>>

\* merge_pages_field(pages_list)
ClientMergePages ==
    /\ pc = "client_unit"
    /\ call.f = "merge_pages_field"
    /\ ret' = merge_pages_field(call.pages_list)
    /\ pc' = "client_done"
    /\ UNCHANGED <<driver, entries, i, now, cache, failed_log, run, logger, loc,
                   fc, trace, output, call>>

\* identify_publisher(doi)
ClientIdentifyPublisher ==
    /\ pc = "client_unit"
    /\ call.f = "identify_publisher"
    /\ ret' = identify_publisher(call.doi)
    /\ pc' = "client_done"
    /\ UNCHANGED <<driver, entries, i, now, cache, failed_log, run, logger, loc,
                   fc, trace, output, call>>

\* extract_doi(entry), and extract_doi of the entry with the value returned
\* stored in its doi field: ret is the pair of the two values
ClientExtractDoi ==
    /\ pc = "client_unit"
    /\ call.f = "extract_doi"
    /\ \E doi \in {extract_doi(call.entry)} :
          ret' = <<doi, extract_doi(Put(call.entry, "doi", doi))>>
    /\ pc' = "client_done"
    /\ UNCHANGED <<driver, entries, i, now, cache, failed_log, run, logger, loc,
                   fc, trace, output, call>>

\* safe_request(url): ret is the response and the sessions of the attempts
ClientSafeRequest ==
    /\ pc = "client_unit"
    /\ call.f = "safe_request"
    /\ ret' = [response |-> safe_request(call.answers, TRUE, TRUE),
               sessions |-> safe_request_sessions(
                                call.answers, create_session(TRUE, TRUE), TRUE, TRUE)]
    /\ pc' = "client_done"
    /\ UNCHANGED <<driver, entries, i, now, cache, failed_log, run, logger, loc,
                   fc, trace, output, call>>

\* find_published_version(entry) and the arXiv step of one of the two scripts on
\* the entry, with a new ChangeLogger: ret is the queries made, the pair returned,
\* and the entry and the logger after the step
ClientFindPublished ==
    /\ pc = "client_unit"
    /\ call.f = "find_published_version"
    /\ \E fpv \in {find_published_version_queries(call.entry, call.web)} :
          \E step \in {IF call.script = "enhanced"
                        THEN ReplaceWithPublished(call.entry, DefaultConfig,
                                                  NewChangeLogger, fpv.result)
                        ELSE WfReplaceArxiv(call.entry, 1, DefaultConfig,
                                            NewChangeLogger, fpv.result)} :
             ret' = [queried |-> fpv.queried, result |-> fpv.result,
                     entry |-> step.entry, logger |-> step.logger]
    /\ pc' = "client_done"
    /\ UNCHANGED <<driver, entries, i, now, cache, failed_log, run, logger, loc,
                   fc, trace, output, call>>

UnitNext ==
    \/ ClientValidate
    \/ ClientScore
    \/ ClientMergePages
    \/ ClientIdentifyPublisher
    \/ ClientExtractDoi
    \/ ClientSafeRequest
    \/ ClientFindPublished

UnitSpec == UnitInit /\ [][UnitNext]_vars

\* the outcomes on which workflow_complete_bibtex adds one to failed_count
WfFailedOutcomes == {"no_doi", "doi_validation_failed", "fetch_failed", "parse_failed"}

\* C12: every entry a driver counted as failed has a record written during the
\* run that names the entry and the reason: a failed-DOI log entry for each
\* member of failed_entries of complete_bibtex_file, an error ChangeRecord for
\* each entry that workflow_complete_bibtex added to failed_count.
C12_FailedEntriesAreRecorded ==
    /\ driver = "complete_bibtex_file" =>
          \A k \in 1..Len(run.failed_entries) :
             \E j \in 1..Len(failed_log) :
                /\ failed_log[j].entry_id = run.failed_entries[k]
                /\ Truthy(failed_log[j].error_message)
    /\ driver = "workflow_complete_bibtex" /\ pc \in {"loop", "write"}
       /\ loc.outcome \in WfFailedOutcomes =>
          \E j \in 1..Len(logger.changes) :
             /\ logger.changes[j].change_type = "error"
             /\ logger.changes[j].entry_id = loc.entry_id
             /\ Truthy(logger.changes[j].error)

\* C14: for every non-empty list of candidates, every source priority and every
\* order of the candidates, the record merge_entries returns has the ID
\* original_id, never the ID of a candidate.
C14_MergedIdIsOriginalId ==
    pc = "client_done" /\ call.f = "merge_entries" /\ call.entries # <<>> =>
       "ID" \in DOMAIN ret /\ ret["ID"] = call.original_id

\* C15: merge_bibtex_entries with preserve_original = True only fills gaps: the
\* result keeps the original's ID and every field value of the original that is
\* not blank, and takes a value from the fetched entry only for a field that is
\* absent, empty or whitespace-only in the original; no other field appears.
C15_MergeOnlyFillsGaps ==
    pc = "client_done" /\ call.f = "merge_bibtex_entries"
    /\ call.preserve_original =>
       /\ DOMAIN ret = DOMAIN call.original \cup (DOMAIN call.fetched \ {"ID"})
       /\ "ID" \in DOMAIN call.original => ret["ID"] = call.original["ID"]
       /\ \A k \in DOMAIN call.original :
             Strip(call.original[k]) # "" => ret[k] = call.original[k]
       /\ \A k \in DOMAIN ret :
             \/ k \in DOMAIN call.original /\ ret[k] = call.original[k]
             \/ /\ k \in DOMAIN call.fetched /\ k # "ID"
                /\ ret[k] = call.fetched[k]
                /\ k \in DOMAIN call.original => Strip(call.original[k]) = ""

\* C15, its case: a whitespace-only author and an empty title were filled from
\* the fetched entry while the year and the ID of the original were kept
C15_Witness ==
    /\ pc = "client_done"
    /\ call.f = "merge_bibtex_entries" /\ call.preserve_original
    /\ call.original = M_BLANK /\ call.fetched = M_DBLP
    /\ ret["author"] = M_DBLP["author"] /\ ret["title"] = M_DBLP["title"]
    /\ ret["ID"] = "blank2023" /\ ret["note"] = M_BLANK["note"]
    /\ ret["journal"] = M_DBLP["journal"]

\* a field that is absent, empty or whitespace-only in the entry
BlankIn(entry, field) == field \notin DOMAIN entry \/ Strip(entry[field]) = ""

\* C20: after a merge in workflow_complete_bibtex, every field of the entry that
\* went from absent or blank to non-blank has a field_added ChangeRecord for
\* that entry and that field.
C20_AddedFieldsAreLogged ==
    driver = "workflow_complete_bibtex" /\ loc.outcome = "merged"
    /\ pc \in {"loop", "write"} =>
       \A field \in DOMAIN entries[i - 1] :
          BlankIn(loc.original_entry, field) /\ ~BlankIn(entries[i - 1], field) =>
             \E k \in 1..Len(logger.changes) :
                /\ logger.changes[k].change_type = "field_added"
                /\ logger.changes[k].entry_id = loc.entry_id
                /\ logger.changes[k].field = field

\* the change type of the record a log_* method appends, and its counter
RecordTypeOf(f) ==
    CASE f = "log_field_added" -> "field_added"
      [] f = "log_field_updated" -> "field_updated"
      [] f = "log_arxiv_replacement" -> "arxiv_replaced"
      [] f = "log_title_formatted" -> "title_formatted"
      [] f = "log_journal_normalized" -> "journal_normalized"
      [] f = "log_error" -> "error"

IsRecordingCall(c) == c.f # "log_entry_processed"

OfType(records, change_type) ==
    Cardinality({k \in 1..Len(records) : records[k].change_type = change_type})

\* C19: after any sequence of log_* calls on a ChangeLogger, changes holds one
\* record per recording call, in call order, each with the entry and the type
\* of its call (so no record was changed or removed by a later call), and each
\* counter equals the number of records of its type.
C19_LedgerAndCounters ==
    pc = "client_logger" =>
       LET calls == SelectSeq(trace, IsRecordingCall)
       IN  /\ Len(logger.changes) = Len(calls)
           /\ \A k \in 1..Len(calls) :
                 /\ logger.changes[k].entry_id = calls[k].entry_id
                 /\ logger.changes[k].change_type = RecordTypeOf(calls[k].f)
           /\ logger.stats.fields_added = OfType(logger.changes, "field_added")
           /\ logger.stats.fields_updated = OfType(logger.changes, "field_updated")
           /\ logger.stats.arxiv_replaced = OfType(logger.changes, "arxiv_replaced")
           /\ logger.stats.titles_formatted
                 = OfType(logger.changes, "title_formatted")
           /\ logger.stats.journals_normalized
                 = OfType(logger.changes, "journal_normalized")
           /\ logger.stats.errors = OfType(logger.changes, "error")
           /\ logger.stats.total_entries = Len(trace) - Len(calls)

\* C19, its case: three calls of different methods for two entries, the error
\* between the two others
C19_Witness ==
    /\ pc = "client_logger"
    /\ Len(logger.changes) = 3
    /\ logger.changes[1].change_type = "field_added"
    /\ logger.changes[2].change_type = "error"
    /\ logger.changes[3].change_type = "arxiv_replaced"
    /\ logger.changes[1].entry_id # logger.changes[3].entry_id
    /\ logger.stats.errors = 1

\* the number of entries of the log for an entry id
LoggedFor(log, entry_id) ==
    Cardinality({k \in 1..Len(log) : log[k].entry_id = entry_id})

ReturnedFor(entry_id) ==
    Cardinality({k \in 1..Len(trace) : trace[k].entry_id = entry_id})

\* C17: writes to the failed-DOI log are serialized: when log_failed_doi calls
\* overlap, the log file afterwards holds the new entry of every call that
\* returned and every earlier entry.
C17_OverlappingLogCallsKeepAllEntries ==
    pc = "client_log" =>
       /\ Len(failed_log) >= Len(run.log0)
       /\ SubSeq(failed_log, 1, Len(run.log0)) = run.log0
       /\ \A entry_id \in {"smith2020", "lee2021"} :
             LoggedFor(failed_log, entry_id) = ReturnedFor(entry_id)

C16_ProcessedInInputOrder ==
    (/\ driver = "enhanced_complete_bibtex"
     /\ pc = "as_completed"
     /\ Len(run.processed) = Len(entries))
    => \A k \in 1..Len(entries) : run.processed[k]["ID"] = entries[k]["ID"]

\* the place of pc in the order of the steps a driver takes for one entry
StepRank ==
    CASE pc = "step1" -> 0
      [] pc = "loop" -> 1
      [] pc = "as_completed" -> 1 + Len(run.completed)
      [] pc = "extract" -> 2
      [] pc = "correct" -> 3
      [] pc = "verify" -> 4
      [] pc = "prefetch" -> 5
      [] pc = "fc_cache" -> 6
      [] pc = "fc_return" -> 7
      [] pc = "fc_publisher" -> 8
      [] pc = "fc_selenium" -> 9
      [] pc = "fc_crossref" -> 10
      [] pc = "fc_scholar" -> 11
      [] pc = "write" -> 98
      [] pc = "done" -> 99
      [] OTHER -> 0

\* how far a run has come: the entries behind it, then the sources tried for
\* the entry at hand, then the step
Progress ==
    10000 * i + (IF pc \in {"loop", "write", "done"} THEN 0 ELSE 100 * Len(trace))
    + StepRank

\* the driver has a step to take: pc is at the guard of one of its actions, and
\* in the parallel mode a worker is running or a completed future is waiting
HasStep ==
    CASE driver = "complete_bibtex_file" ->
            pc \in {"loop", "extract", "correct", "verify", "prefetch", "fc_cache",
                    "fc_publisher", "fc_selenium", "fc_crossref", "fc_scholar",
                    "fc_return", "write"}
      [] driver = "workflow_complete_bibtex" ->
            pc \in {"loop", "extract", "verify", "fc_cache", "fc_publisher",
                    "fc_selenium", "fc_crossref", "fc_scholar", "fc_return", "write"}
      [] driver = "enhanced_complete_bibtex" ->
            \/ pc \in {"step1", "loop", "write"}
            \/ /\ pc = "as_completed"
               /\ \/ i > Len(entries)
                  \/ i <= Len(run.completed)
                  \/ \E k \in 1..Len(run.futures) : run.futures[k].state = "running"
      [] OTHER -> FALSE

\* C13: in every run of complete_bibtex_file, workflow_complete_bibtex and
\* enhanced_complete_bibtex (sequential and parallel), whatever the sources,
\* the validator, the parser and the merger do: a driver that moves to the
\* next entry leaves the entry with a terminal outcome and skips none; a run
\* that has not written its output always has a step to take, an entry that
\* failed included; every step brings the run forward, so that the run cannot
\* go on forever; and a finished run has every entry of the input behind it
\* and in the output.
C13_FailureIsolation ==
    /\ [][i' # i => i' = i + 1 /\ loc'.outcome # ""]_vars
    /\ [](pc # "done" => HasStep)
    /\ [][Progress' > Progress]_vars
    /\ [](pc = "done" => i = Len(entries) + 1 /\ Len(output) = Len(entries))

\* a finished run of complete_bibtex_file in which the first entry failed and
\* the entry after it was completed
C13_Witness ==
    /\ driver = "complete_bibtex_file"
    /\ pc = "done"
    /\ Len(entries) >= 2
    /\ run.failed_entries = <<entries[1]["ID"]>>
    /\ run.completed_count >= 1
    /\ loc.outcome = "merged"

\* the integer Python's int() gives for the sample years, <<FALSE, 0>> for
\* the ones it raises ValueError on
YearAsInt(year) ==
    CASE year = "2021" -> <<TRUE, 2021>>
      [] year = "2022" -> <<TRUE, 2022>>
      [] year = "2023" -> <<TRUE, 2023>>
      [] year = " 2020 " -> <<TRUE, 2020>>
      [] year = "2_023" -> <<TRUE, 2023>>
      [] OTHER -> <<FALSE, 0>>

\* the validator rejected for the title
TitleRejected ==
    \/ StartsWith(ret[2], "Fetched entry missing title")
    \/ StartsWith(ret[2], "Title")

ValidatorReturned == pc = "client_done" /\ call.f = "validate_fetched_bibtex"

\* C21: when both entries have a year that parses as an integer, a difference
\* of more than one year, in either direction, makes validate_fetched_bibtex
\* reject, with the year-mismatch reason once the title check has passed; a
\* difference of at most one year, and a year that is not a number on either
\* side, never gives the year-mismatch reason.
C21_YearCheck ==
    ValidatorReturned =>
        LET oy == YearAsInt(Get(call.original_entry, "year", ""))
            fy == YearAsInt(Get(call.fetched_entry, "year", ""))
            apart == oy[1] /\ fy[1] /\ (oy[2] - fy[2] > 1 \/ fy[2] - oy[2] > 1)
        IN  IF apart
            THEN /\ ret[1] = FALSE
                 /\ ~TitleRejected =>
                       ret[2] = "Year mismatch (original: "
                                \o call.original_entry["year"] \o ", fetched: "
                                \o call.fetched_entry["year"] \o ")"
            ELSE ~StartsWith(ret[2], "Year mismatch")

\* the original is the older entry by three years and the candidate is rejected
C21_Witness ==
    /\ ValidatorReturned
    /\ Get(call.original_entry, "year", "") = " 2020 "
    /\ Get(call.fetched_entry, "year", "") = "2_023"
    /\ ret[1] = FALSE
    /\ StartsWith(ret[2], "Year mismatch")

\* the sample DOIs without their scheme and host, letter case kept
BareDoi(doi) ==
    CASE doi = "https://doi.org/10.1109/5.771073" -> "10.1109/5.771073"
      [] doi = "HTTP://DX.DOI.ORG/10.1109/5.771073" -> "10.1109/5.771073"
      [] OTHER -> doi

\* the validator reached its DOI check
DoiCheckReached ==
    ValidatorReturned /\ ~TitleRejected /\ ~StartsWith(ret[2], "Year mismatch")

\* C22 as stated: when both entries have a DOI, the candidate is accepted
\* exactly when the two DOIs are the same string once scheme and host are
\* stripped, and rejected with the DOI-mismatch reason otherwise; without a
\* DOI on either side the check is skipped.
C22_DoiCheckExact ==
    DoiCheckReached =>
        LET od == Get(call.original_entry, "doi", "")
            fd == Get(call.fetched_entry, "doi", "")
        IN  IF od # "" /\ fd # ""
            THEN /\ ret[1] = (BareDoi(od) = BareDoi(fd))
                 /\ ~ret[1] => StartsWith(ret[2], "DOI mismatch")
            ELSE ret[1]

\* C22, amended: the two DOIs are compared without scheme and host and without
\* regard to letter case.
C22_DoiCheckIgnoringCase ==
    DoiCheckReached =>
        LET od == Get(call.original_entry, "doi", "")
            fd == Get(call.fetched_entry, "doi", "")
        IN  IF od # "" /\ fd # ""
            THEN /\ ret[1] = (Lower(BareDoi(od)) = Lower(BareDoi(fd)))
                 /\ ~ret[1] => ret[2] = "DOI mismatch (original: "
                                         \o Lower(BareDoi(od)) \o ", fetched: "
                                         \o Lower(BareDoi(fd)) \o ")"
            ELSE ret[1]

\* a DOI given as an upper-case dx.doi.org URL is accepted against the bare DOI
C22_Witness ==
    /\ DoiCheckReached
    /\ Get(call.original_entry, "doi", "") = "HTTP://DX.DOI.ORG/10.1109/5.771073"
    /\ Get(call.fetched_entry, "doi", "") = "10.1109/5.771073"
    /\ ret[1]

\* the words of the sample titles, lower-cased and without punctuation
TitleWordsOf(title) ==
    CASE title = "Deep Learning for Vision" -> {"deep", "learning", "for", "vision"}
      [] title = "Deep Learning for Vision Applications" ->
             {"deep", "learning", "for", "vision", "applications"}
      [] title = "Quantum Computing Survey" -> {"quantum", "computing", "survey"}
      [] title = "Deep Learning: A Survey of Quantum Vision" ->
             {"deep", "learning", "a", "survey", "of", "quantum", "vision"}
      [] title = "deep vision transformers FOR robots" ->
             {"deep", "vision", "transformers", "for", "robots"}
      [] title = "Test Paper" -> {"test", "paper"}
      [] OTHER -> {}

BlankTitle(title) == title \in {"", "   "}

\* the overlap ratio of the two titles of the call is below 0.6
RatioBelowSixTenths ==
    LET ow == TitleWordsOf(Get(call.original_entry, "title", ""))
        fw == TitleWordsOf(Get(call.fetched_entry, "title", ""))
    IN  10 * Cardinality(ow \cap fw) < 6 * Min(Cardinality(ow), Cardinality(fw))

\* C23 as stated: a candidate with a blank title is rejected; when the original
\* has a title, the candidate is rejected for its title, with the
\* title-mismatch reason, exactly when the overlap of the two normalized word
\* sets divided by the size of the smaller one is below 0.6; when the original
\* has no title, a candidate with a non-blank title passes the title check.
C23_TitleCheckByRatioOnly ==
    ValidatorReturned =>
        LET ot == Get(call.original_entry, "title", "")
            ft == Get(call.fetched_entry, "title", "")
        IN  IF BlankTitle(ft) THEN ret = <<FALSE, "Fetched entry missing title">>
            ELSE IF BlankTitle(ot) THEN ~TitleRejected
            ELSE /\ TitleRejected <=> RatioBelowSixTenths
                 /\ TitleRejected => StartsWith(ret[2], "Title mismatch")

\* C23, amended: when the original has a title and one of the two titles has
\* no word left once its punctuation is removed, the candidate is rejected
\* with the empty-title reason; otherwise it is rejected for its title exactly
\* when the ratio is below 0.6, and a ratio of exactly 0.6 passes.
C23_TitleCheck ==
    ValidatorReturned =>
        LET ot == Get(call.original_entry, "title", "")
            ft == Get(call.fetched_entry, "title", "")
        IN  IF BlankTitle(ft) THEN ret = <<FALSE, "Fetched entry missing title">>
            ELSE IF BlankTitle(ot) THEN ~TitleRejected
            ELSE IF TitleWordsOf(ot) = {} \/ TitleWordsOf(ft) = {}
            THEN ret = <<FALSE, "Title validation failed (empty title)">>
            ELSE /\ TitleRejected <=> RatioBelowSixTenths
                 /\ TitleRejected => StartsWith(ret[2], "Title mismatch (similarity: ")

\* two of the five words of the shorter title are in the longer one: the
\* candidate is rejected with a similarity of 40 percent
C23_Witness ==
    /\ ValidatorReturned
    /\ Get(call.original_entry, "title", "") = "Deep Learning: A Survey of Quantum Vision"
    /\ Get(call.fetched_entry, "title", "") = "deep vision transformers FOR robots"
    /\ ret = <<FALSE, "Title mismatch (similarity: 40.0%)">>

ScoreReturned == pc = "client_done" /\ call.f = "calculate_completeness_score"

\* the score 100 in the units of the model: the weights add up to 144 and a
\* weight counts 1000 when its field is at least 100 characters long
FullScore == 144 * 1000

\* C24: the score of a record to which a non-blank value is added in a weighted
\* field that was absent or blank is not less than the score of the record,
\* and both scores lie between 0 and 100.
C24_ScoreMonotonicAndBounded ==
    ScoreReturned =>
        /\ ret[1] <= ret[2]
        /\ 0 <= ret[1] /\ ret[1] <= FullScore
        /\ 0 <= ret[2] /\ ret[2] <= FullScore

\* the last missing field of a record of long values is filled with a value of
\* 120 characters: the score rises to exactly 100
C24_Witness ==
    /\ ScoreReturned
    /\ call.field = "pages"
    /\ "author" \in DOMAIN call.entry
    /\ Len(call.value) = 120
    /\ ret[1] < ret[2]
    /\ ret[2] = FullScore

PagesReturned == pc = "client_done" /\ call.f = "merge_pages_field"

\* the value contains a hyphen, a double hyphen or an en dash
HasRangeSeparator(pages) == Occurs(pages, "-") \/ Occurs(pages, EN_DASH)

\* C25: the merged pages value is, among the non-blank candidate values, a
\* longest one of those that contain a range separator (hyphen, double hyphen
\* or en dash) if any value contains one, and otherwise a longest value
\* overall; without a non-blank value it is empty.
C25_PagesPreferRange ==
    PagesReturned =>
        LET values == {call.pages_list[k] : k \in 1..Len(call.pages_list)}
                          \ {"", "  "}
            ranges == {v \in values : HasRangeSeparator(v)}
            pool == IF ranges # {} THEN ranges ELSE values
        IN  IF values = {} THEN ret = ""
            ELSE ret \in pool /\ \A v \in pool : Len(v) <= Len(ret)

\* the prefix of a DOI: what stands before its first slash
DoiPrefixOf(doi) == Sub(doi, 1, FindFrom(doi, "/", 1) - 1)

\* the registered publisher prefixes; None is the no-publisher fallback
RegisteredPublisher(prefix) ==
    CASE prefix = "10.1109" -> "IEEE"
      [] prefix = "10.1145" -> "ACM"
      [] prefix = "10.1007" -> "Springer"
      [] prefix = "10.1016" -> "Elsevier"
      [] prefix = "10.48550" -> "arXiv"
      [] OTHER -> None

\* C26: identify_publisher returns, for every DOI whose prefix is a registered
\* publisher prefix, that publisher, and for every other well-formed DOI the
\* no-publisher fallback.
C26_PublisherByPrefix ==
    pc = "client_done" /\ call.f = "identify_publisher" =>
        ret = RegisteredPublisher(DoiPrefixOf(call.doi))

ExtractReturned == pc = "client_done" /\ call.f = "extract_doi"

\* a string of the form 10.<prefix>/<suffix>
DoiShaped(doi) ==
    /\ StartsWith(doi, "10.")
    /\ \E k \in 5..(Len(doi) - 1) :
          /\ Char(doi, k) = "/"
          /\ \A j \in 4..(k - 1) : Char(doi, j) \in Digits

\* C27: extract_doi is idempotent, the value it returns being stored in the
\* doi field of the record and extracted again; a doi field with a doi.org or
\* dx.doi.org URL prefix gives the bare DOI; a doi.org URL or an arXiv abs or
\* pdf URL in the url field, the doi field being absent or empty, gives a
\* DOI-shaped string.
C27_ExtractDoiIdempotent ==
    ExtractReturned =>
        LET doi == Get(call.entry, "doi", "")
            url == Get(call.entry, "url", "")
        IN  /\ ret[2] = ret[1]
            /\ doi = "https://doi.org/10.1145/3456789" => ret[1] = "10.1145/3456789"
            /\ doi = "http://dx.doi.org/10.1145/3456789" => ret[1] = "10.1145/3456789"
            /\ doi = "https://dx.doi.org/10.1016/j.cell.2023.01.001"
                  => ret[1] = "10.1016/j.cell.2023.01.001"
            /\ doi = "" /\ (Occurs(url, "doi.org/") \/ Occurs(url, "arxiv.org/"))
                  => ret[1] # None /\ DoiShaped(ret[1])

\* a DOI or an arXiv ID can be derived from the doi, url, eprint or
\* archiveprefix field of the entry
IdentifierDerivable(entry) ==
    \/ Strip(Get(entry, "doi", "")) # ""
    \/ Occurs(Get(entry, "url", ""), "doi.org/10.")
    \/ Occurs(Get(entry, "url", ""), "arxiv.org/abs/")
    \/ Occurs(Get(entry, "url", ""), "arxiv.org/pdf/")
    \/ Get(entry, "eprint", "") # "" /\ Lower(Get(entry, "archiveprefix", "")) = "arxiv"

\* C28: complete_bibtex_file aborts an entry as having no identifier only when
\* no DOI or arXiv ID can be derived from its doi, url, eprint or archiveprefix
\* field, so that an entry with an arXiv ID in eprint alone goes on to the
\* correction step; the aborted entry is logged with the no-identifier reason
\* and nothing is verified or fetched for it; an entry without a derivable
\* identifier never goes past the extraction.
C28_AbortOnlyWithoutIdentifier ==
    driver = "complete_bibtex_file" =>
        /\ loc.outcome = "no_doi" =>
              /\ ~IdentifierDerivable(entries[i - 1])
              /\ failed_log # <<>>
              /\ failed_log[Len(failed_log)].entry_id = loc.entry_id
              /\ failed_log[Len(failed_log)].error_message = "No DOI found in entry"
              /\ \A k \in 1..Len(trace) : trace[k].op = "log"
        /\ pc \notin {"loop", "extract", "write", "done"} =>
              IdentifierDerivable(entries[i])

\* every important field of the entry's type is non-blank
AllImportantFieldsPresent(entry) ==
    \A field \in {"author", "title", "year", "volume", "number", "pages",
                  "publisher", "doi"}
                 \cup (IF Get(entry, "ENTRYTYPE", "article") = "inproceedings"
                       THEN {} ELSE {"journal"})
                 \cup (IF Get(entry, "ENTRYTYPE", "article") = "article"
                       THEN {} ELSE {"booktitle"}) :
        field \in DOMAIN entry /\ Strip(entry[field]) # ""

\* C29: complete_bibtex_file skips an entry whose important fields are all
\* present: the loop goes on to the next entry with no identifier extracted, no
\* correction looked up, no request, cache access or adapter call made, nothing
\* added to the failed-DOI log or to the failed entries, and no step of the run
\* changes the entry.
C29_CompleteEntrySkipped ==
    [][driver = "complete_bibtex_file" =>
          /\ pc = "loop" /\ i <= Len(entries) /\ AllImportantFieldsPresent(entries[i])
                => /\ pc' = "loop" /\ i' = i + 1
                   /\ loc'.outcome = "complete" /\ loc'.doi = None
                   /\ trace' = <<>>
                   /\ UNCHANGED <<entries, cache, failed_log, run, now, fc, output>>
          /\ \A k \in 1..Len(entries) :
                AllImportantFieldsPresent(entries[k]) => entries'[k] = entries[k]]_vars

\* the complete entry is the second of the file and was skipped after the
\* first entry had been processed
C29_Witness ==
    /\ driver = "complete_bibtex_file"
    /\ loc.outcome = "complete"
    /\ loc.entry_id = "full2023"
    /\ i = 3
    /\ pc = "loop"

\* merge_entries returned from a call with two or more candidates
MergedSeveral ==
    pc = "client_done" /\ call.f = "merge_entries" /\ Len(call.entries) >= 2

\* the source tag of an entry, None without one; the merged entry keeps the
\* tag of its seed, no candidate's field replacing it
SourceTag(entry) == Get(entry, "_source", None)

\* the positions in source_priority of the tags that a candidate carries
MatchedPriorities ==
    {k \in 1..Len(call.source_priority) :
        \E j \in 1..Len(call.entries) :
            SourceTag(call.entries[j]) = call.source_priority[k]}

\* the candidates of the highest completeness score
MostComplete ==
    {j \in 1..Len(call.entries) :
        \A m \in 1..Len(call.entries) :
            calculate_completeness_score(call.entries[m])
               <= calculate_completeness_score(call.entries[j])}

\* the seed is the candidate tagged with the earliest matching priority
SeedByPriority ==
    LET first == CHOOSE k \in MatchedPriorities : \A m \in MatchedPriorities : k <= m
    IN  SourceTag(ret) = call.source_priority[first]

\* C30 as stated: the seed is the first candidate tagged with the earliest
\* entry of source_priority that matches a candidate; without a priority list,
\* or when no candidate's tag is in the list, it is the candidate of the
\* highest completeness score.
C30_SeedMostCompleteWithoutMatch ==
    MergedSeveral =>
        IF MatchedPriorities # {} THEN SeedByPriority
        ELSE \E j \in MostComplete : SourceTag(ret) = SourceTag(call.entries[j])

\* C30, amended: when a priority list is given and no candidate's tag is in
\* it, the seed is the first candidate; the candidate of the highest
\* completeness score is the seed only when no priority list is given.
C30_SeedSelection ==
    MergedSeveral =>
        IF MatchedPriorities # {} THEN SeedByPriority
        ELSE IF call.source_priority # <<>>
        THEN SourceTag(ret) = SourceTag(call.entries[1])
        ELSE \E j \in MostComplete : SourceTag(ret) = SourceTag(call.entries[j])

\* a priority list that names neither candidate: the seed is the first
\* candidate, which has no tag, and not the more complete second one
C30_Witness ==
    /\ MergedSeveral
    /\ call.source_priority = <<"doi_official", "dblp", "crossref">>
    /\ call.entries = <<M_BLANK, M_IEEE>>
    /\ "_source" \notin DOMAIN ret

RequestReturned == pc = "client_done" /\ call.f = "safe_request"

\* the attempts of the call that failed with the exception
FailedWith(exc) == {k \in 1..Len(ret.sessions) : call.answers[k].exc = exc}

\* the attempts that were retried after the exception
RetriedAfter(exc) == {k \in FailedWith(exc) : k < Len(ret.sessions)}

\* C31: safe_request ends after a bounded number of attempts with a response
\* or None; a request that fails with a proxy error is retried once with the
\* proxy stripped and one that fails with a TLS error is retried once with
\* verification relaxed, and no fallback is taken a second time in one call.
C31_EachFallbackOnce ==
    RequestReturned =>
        /\ Len(ret.sessions) <= 3
        /\ \/ IsNone(ret.response)
           \/ ret.response.exc = "" /\ ret.response.status_code < 400
        /\ Cardinality(RetriedAfter("ProxyError")) <= 1
        /\ Cardinality(RetriedAfter("SSLError")) <= 1
        /\ \A k \in RetriedAfter("ProxyError") : ~ret.sessions[k + 1].use_proxy
        /\ \A k \in RetriedAfter("SSLError") : ~ret.sessions[k + 1].verify_ssl
        /\ FailedWith("ProxyError") # {} => RetriedAfter("ProxyError") # {}
        /\ FailedWith("SSLError") # {} => RetriedAfter("SSLError") # {}

\* the failed-DOI records that were written after a request had been sent for
\* their entry: all but those of an entry without a DOI and of a DOI that
\* verify_doi_exists turns down before it asks the resolver
RecordsAfterRequests ==
    {k \in 1..Len(failed_log) :
        /\ failed_log[k].error_message # "No DOI found in entry"
        /\ ~StartsWith(failed_log[k].error_message, "DOI validation failed: Invalid DOI")
        /\ ~StartsWith(failed_log[k].error_message, "DOI validation failed: Empty DOI")}

\* the resolver has answered for the entry at hand, and the entry is in work
RequestSentForEntry ==
    /\ driver = "complete_bibtex_file"
    /\ pc \notin {"loop", "extract", "correct", "verify", "write", "done"}

\* C32: when complete_bibtex_file sends a request for an entry, it has slept
\* once, for RATE_LIMIT_DELAY or RATE_LIMIT_CACHE_DELAY, after each earlier
\* entry for which requests were sent, whether that entry was completed or
\* failed.
C32_DelayAfterEveryEntry ==
    RequestSentForEntry =>
        /\ Len(run.slept) >= run.completed_count + Cardinality(RecordsAfterRequests)
        /\ \A k \in 1..Len(run.slept) :
              run.slept[k] \in {RATE_LIMIT_DELAY, RATE_LIMIT_CACHE_DELAY}

\* find_published_version has returned to the client, which ran the arXiv step
FindReturned == pc = "client_done" /\ call.f = "find_published_version"

\* the sources a search of the entry can ask, by the entry's id: the preprint with
\* an arXiv identifier and a title, the arXiv entry without an identifier, and
\* the entries that are no arXiv entry or have no title
SourcesFor(id) ==
    CASE id = "pre2024" -> <<"semantic_scholar", "dblp", "crossref">>
      [] id = "wu2022" -> <<"dblp", "crossref">>
      [] OTHER -> <<>>

\* the search of the k-th source asked named a DOI
ProducedDoi(k) == call.web[ret.queried[k].source] \notin {None, ""}

\* the search of the k-th source asked named a DOI whose BibTeX was downloaded
ProducedBibtex(k) ==
    /\ ProducedDoi(k)
    /\ call.web.bibtex[call.web[ret.queried[k].source]] \notin {None, ""}

\* the sources were asked in the order Semantic Scholar, DBLP, CrossRef
QueriedInOrder ==
    \E n \in 0..Len(SourcesFor(call.entry["ID"])) :
       [k \in 1..Len(ret.queried) |-> ret.queried[k].source]
          = SubSeq(SourcesFor(call.entry["ID"]), 1, n)

\* the arXiv step put a published version in the place of the entry
Substituted ==
    \/ ret.entry # call.entry
    \/ \E k \in 1..Len(ret.logger.changes) :
          ret.logger.changes[k].change_type = "arxiv_replaced"

\* the substituted entry has the id of the original, and the log holds exactly
\* one arxiv_replaced record, which is for that id
SubstitutedUnderOriginalId ==
    Substituted =>
       /\ ret.entry["ID"] = call.entry["ID"]
       /\ Cardinality({k \in 1..Len(ret.logger.changes) :
                          ret.logger.changes[k].change_type = "arxiv_replaced"}) = 1
       /\ \A k \in 1..Len(ret.logger.changes) :
             ret.logger.changes[k].change_type = "arxiv_replaced" =>
                ret.logger.changes[k].entry_id = call.entry["ID"]

ReportedNotExisting(tr) ==
    \E k \in 1..Len(tr) : tr[k].op = "verify" /\ ~tr[k].ok

\* C34: in workflow_complete_bibtex an entry whose DOI verify_doi_exists reports
\* as not existing is not passed to fetch_complete_bibtex: the step that
\* verifies the DOI ends the entry, adds one to failed_count, logs an error
\* record 'Invalid DOI: <doi>' for the entry and leaves the entries as they are.
C34_InvalidDoiNotFetched ==
    [][driver = "workflow_complete_bibtex" /\ pc = "verify"
       /\ ReportedNotExisting(trace')
       => /\ pc' = "loop"
          /\ i' = i + 1
          /\ run'.failed_count = run.failed_count + 1
          /\ logger'.changes
                = Append(logger.changes,
                         [entry_id |-> loc.entry_id, change_type |-> "error",
                          error |-> "Invalid DOI: " \o loc.doi])
          /\ entries' = entries]_vars

\* C35: cache isolation: a text that get_cached_bibtex(d) returns was written
\* by a call cache_bibtex(d, text) for the same DOI d; a text cached for another
\* DOI is never returned.
C35_CacheIsolation ==
    driver = "client" /\ pc = "client_cache" /\ call.f = "get_cached_bibtex"
       /\ ret # None
    => \E k \in 1..Len(trace) :
          trace[k].doi = call.doi /\ trace[k].bibtex = ret

\* C36: only validated results are cached: when complete_bibtex_file is through
\* with an entry, every text that was stored in the cache for the entry's DOI
\* was parsed into a record that validate_fetched_bibtex accepted for the entry.
C36_OnlyValidatedCached ==
    driver = "complete_bibtex_file" /\ pc \in {"loop", "write", "done"} =>
       \A k \in 1..Len(trace) :
          trace[k].op = "cache_put" =>
             \E j \in 1..Len(trace) :
                /\ trace[j].op = "validate"
                /\ trace[j].name = trace[k].name
                /\ trace[j].doi = trace[k].doi
                /\ trace[j].ok

\* C37: a field_added record is logged for an entry and a field only if the
\* field was absent or blank in the entry before the step that logged it: of the
\* records the arXiv step logs for an entry, none names a field that had a
\* non-blank value in the entry the step was given.
C37_AddedFieldsWereMissing ==
    FindReturned =>
       \A k \in 1..Len(ret.logger.changes) :
          ret.logger.changes[k].change_type = "field_added" =>
             \/ ret.logger.changes[k].field \notin DOMAIN call.entry
             \/ Strip(call.entry[ret.logger.changes[k].field]) = ""

\* C39: at the end of a run of enhanced_complete_bibtex the counter total_entries
\* of the ChangeLogger equals the number of entries of the input file, in the
\* sequential and in the parallel mode.
C39_TotalEntriesCountsInput ==
    driver = "enhanced_complete_bibtex" /\ pc = "done" =>
       logger.stats.total_entries = Len(output)

(***************************************************************************)
(* The worker threads of process_entries_parallel share one ChangeLogger,  *)
(* whose methods take no lock.  A call of a log_* method is three steps of *)
(* its thread: self.changes.append(record), then the read and the write of *)
(* self.stats[counter] += 1, between which the other threads can run.      *)
(* call[t] is the frame of thread t, trace the calls that have returned.   *)
(***************************************************************************)
WorkerThreads == {1, 2}

MaxWorkerLogCalls == 3

WorkerIdle == [pc |-> "idle"]

\* the log_* calls a worker or the loop over as_completed makes
WorkerLogCalls ==
    {[method |-> "log_field_added", entry_id |-> id, counter |-> "fields_added"] :
        id \in {"smith2020", "lee2021"}}
    \cup {[method |-> "log_arxiv_replacement", entry_id |-> "pre2024",
            counter |-> "arxiv_replaced"],
           [method |-> "log_error", entry_id |-> "smith2020", counter |-> "errors"]}

\* the record the method appends to self.changes
RecordOf(c) ==
    CASE c.method = "log_field_added" ->
             Last(log_field_added(NewChangeLogger, c.entry_id, "journal",
                                  "Proceedings of the IEEE", "multi_source").changes)
      [] c.method = "log_arxiv_replacement" ->
             Last(log_arxiv_replacement(NewChangeLogger, c.entry_id, "unknown",
                                        "10.1109/5.771073", "published_version").changes)
      [] c.method = "log_error" ->
             Last(log_error(NewChangeLogger, c.entry_id, "TypeError").changes)

WorkerLogInit ==
    /\ driver = "client"
    /\ entries = <<>>
    /\ i = 1
    /\ pc = "client_workers"
    /\ now = 0
    /\ cache = [path \in {} |-> None]
    /\ failed_log = <<>>
    /\ run = NewRun
    /\ logger = NewChangeLogger
    /\ loc = NoLocals
    /\ fc = NoFrame
    /\ trace = <<>>
    /\ output = <<>>
    /\ call = [t \in WorkerThreads |-> WorkerIdle]
    /\ ret = None

\* thread t enters a log_* method: self.changes.append({...})
WorkerAppend(t) ==
    /\ pc = "client_workers"
    /\ call[t].pc = "idle"
    /\ Len(logger.changes) < MaxWorkerLogCalls
    /\ \E c \in WorkerLogCalls :
          /\ logger' = [logger EXCEPT !.changes = Append(@, RecordOf(c))]
          /\ call' = [call EXCEPT ![t] = [pc |-> "appended", method |-> c.method,
                                          entry_id |-> c.entry_id,
                                          counter |-> c.counter]]
    /\ UNCHANGED <<driver, entries, i, pc, now, cache, failed_log, run, loc, fc,
                   trace, output, ret>>

\* self.stats[counter] += 1, the read of the counter
WorkerLoad(t) ==
    /\ pc = "client_workers"
    /\ call[t].pc = "appended"
    /\ call' = [call EXCEPT ![t] = [method |-> call[t].method,
                                    entry_id |-> call[t].entry_id,
                                    counter |-> call[t].counter,
                                    pc |-> "loaded",
                                    loaded |-> logger.stats[call[t].counter]]]
    /\ UNCHANGED <<driver, entries, i, pc, now, cache, failed_log, run, logger, loc,
                   fc, trace, output, ret>>

\* self.stats[counter] += 1, the write of the sum; the method returns
WorkerStore(t) ==
    /\ pc = "client_workers"
    /\ call[t].pc = "loaded"
    /\ logger' = [logger EXCEPT !.stats[call[t].counter] = call[t].loaded + 1]
    /\ trace' = Append(trace, [thread |-> t, method |-> call[t].method,
                               entry_id |-> call[t].entry_id])
    /\ call' = [call EXCEPT ![t] = WorkerIdle]
    /\ UNCHANGED <<driver, entries, i, pc, now, cache, failed_log, run, loc, fc,
                   output, ret>>

WorkerLogNext ==
    \E t \in WorkerThreads : WorkerAppend(t) \/ WorkerLoad(t) \/ WorkerStore(t)

WorkerLogSpec == WorkerLogInit /\ [][WorkerLogNext]_vars

\* the counter of stats that counts the records of a type
CounterOfType(change_type) ==
    CASE change_type = "field_added" -> "fields_added"
      [] change_type = "arxiv_replaced" -> "arxiv_replaced"
      [] change_type = "error" -> "errors"

\* every thread is out of the methods of the logger
WorkersFinished ==
    pc = "client_workers" /\ \A t \in WorkerThreads : call[t].pc = "idle"

\* C38: when the workers that log to one shared ChangeLogger have finished, no
\* record is lost (the log holds one record for every call made) and every
\* counter of stats equals the number of records of its type, whatever the
\* interleaving of the workers was.
C38_SharedLoggerConsistent ==
    WorkersFinished =>
       /\ Len(logger.changes) = Len(trace)
       /\ \A change_type \in {"field_added", "arxiv_replaced", "error"} :
             logger.stats[CounterOfType(change_type)]
                = Cardinality({k \in 1..Len(logger.changes) :
                                  logger.changes[k].change_type = change_type})

====
